---- MODULE Spec2Model ----
(***************************************************************************)
(* Verification model of the meeting-room client:                          *)
(*   - the replicated room-state engine (RoomProvider.tsx): roomReducer,   *)
(*     applyEventToState, dispatchAndBroadcast, the whiteboard_events      *)
(*     realtime handler and the initial event-log replay;                  *)
(*   - admission control (RoomProvider.tsx, AdmissionModal,                *)
(*     ParticipantsList);                                                  *)
(*   - peer-session orchestration (WebRTCProvider);                        *)
(*   - the leave sequence of the room page (MediaControls, RoomPage,       *)
(*     RoomProvider.leaveRoom);                                            *)
(*   - one WebRTCProvider with several peers;                              *)
(*   - the participants list of one client and its realtime handler;       *)
(*   - the TurnCredentialManager.                                          *)
(* Each part has its own next-state relation and specification; the        *)
(* variables of the other parts stay at their initial values.              *)
(***************************************************************************)
EXTENDS Integers, Sequences, FiniteSets, Bags, TLC

(***************************************************************************)
(* Bounds of the model                                                     *)
(***************************************************************************)
\* number of distinct board element ids ever created in a room
MaxElemId == 2
\* number of whiteboard events issued in a room (persisted or in flight)
MaxLog == 2
\* length of the undo history a client builds up
MaxHistory == 3
\* length of the elements array a reducer run starts from
MaxStart == 1
\* clients that are inside initializeAndSubscribe at the same time
MaxJoining == 2
\* participant row changes a host client has not been handed yet
MaxLag == 1
\* deny/remove operations carried out by hosts
MaxKicks == 1
\* voluntary leaves
MaxLeaves == 1
\* RTCPeerConnection objects constructed by the clients of a room
MaxPcs == 3
\* ICE candidates gathered by the peer connections of a room
MaxCands == 1
\* runs of the WebRTCProvider participants effects with a local stream (runs
\* without one stop at the early return of the connect/cleanup effect)
MaxEffects == 2
\* ICE failures reported with a connection-failed signal
MaxFailures == 1
\* offer envelopes put on the channel by a sender other than the clients modelled
MaxForeign == 1
\* length of the leave sequence's clock, in steps of 500 ms
MaxTime == 14
\* RTCPeerConnection objects constructed while a connection keeps failing
MaxReconnectPcs == 5
\* ICE failures reported while a connection keeps failing
MaxReconnectFailures == 4
\* async chains and undelivered envelopes of a pair of clients that are pending
\* when one of them reports a further ICE failure
MaxBusy == 0
\* connected events a client's connections report while a connection keeps
\* failing
MaxConnects == 1
\* envelopes the channel hands to the client with several peers
MaxHeard == 3
\* runs of that client's connect effect that start an offer
MaxMeshEffects == 1
\* envelopes that client queues while its stream is not ready
MaxMeshQueue == 1
\* RTCPeerConnection objects the client with several peers constructs
MaxMeshPcs == 3
\* ICE connection state changes of the connections of that client
MaxIceEvents == 2
\* calls of the TurnCredentialManager and the last clock value
MaxTurnCalls == 4
MaxNow == 3
\* length of the participants list ADD_PARTICIPANT is dispatched on
MaxRoster == 3
\* inserts, updates and deletes of participant rows
MaxRowChanges == 3
\* length of the participant ids the id order is examined on
MaxIdLen == 2
\* calls of WebRTCProvider.leaveRoom made by the two clients together
MaxLeaveCalls == 2

(***************************************************************************)
(* Part I - replicated room-state engine                                   *)
(***************************************************************************)
VARIABLES
  st,         \* the board part of one client's RoomState (useReducer state)
  prev,       \* history: st before the last dispatched action
  lastType,   \* history: type of the last dispatched action ("" at start)
  mark,       \* history: a state with historyIndex > 0 picked as start of UNDO,REDO,UNDO
  progress,   \* history: how many of UNDO, REDO, UNDO were dispatched since mark (-1: no mark)
  folded,     \* history: applyEventToState folded over the events of the actions so far
  pureSeq     \* history: only ADD/UPDATE/DELETE_ELEMENT, CLEAR_CANVAS since the start array

reducerVars == <<st, prev, lastType, mark, progress, folded, pureSeq>>

VARIABLES
  room,       \* room[c]: board part of client c's RoomState
  phase,      \* phase[c]: "out" | "subscribed" (channel up, loading) | "loaded"
  log,        \* meetboard_whiteboard_events rows, in created_at order
  outbox,     \* outbox[c]: inserts issued by c that the backend has not stored yet
  cursor,     \* cursor[c]: rows of log whose INSERT notification c has been handed
  usedIds,    \* element ids generated so far
  throughout, \* history: c subscribed and loaded while the table was empty, has
              \*   dispatched nothing since, and no row of the table is its own
  fresh,      \* history: c's state is what the replay of the current table produced
  msgs,       \* meetboard_messages rows, in created_at order
  failed,     \* history: number of inserts the backend has rejected
  dispatched  \* history: dispatched[c] = the event rows c has issued, in the
              \*   order of its dispatchAndBroadcast calls

storeVars == <<room, phase, log, outbox, cursor, usedIds, throughout, fresh, msgs, failed, dispatched>>

VARIABLES
  rows,       \* meetboard_participants: rows[u] = [status, role]; status "none": no row
  hostId,     \* meetboard_rooms.host_id of the room (NoUser: no room row or null)
  apc,        \* apc[u]: where client u is in initializeAndSubscribe
  isHostL,    \* isHostL[u]: isHost as client u derived it
  planStatus, \* planStatus[u]: participantStatus computed by the subscribe callback
  view,       \* view[u][v]: status of v in a host client's participants list
  feed,       \* feed[u]: participant row changes not yet handed to host client u
  kickNote,   \* kickNote[u]: an UPDATE of u's own row to denied/removed is on its way to u
  wasKicked,  \* history: u's row has had status denied or removed
  kicks,      \* number of deny/remove operations carried out
  leaves,     \* number of voluntary leaves
  started,    \* number of users that have opened the room page at least once
  fullActs,   \* history: the buttons ("admit", "deny") of the admission modal that
              \*   a host clicked while its list showed MAX_PARTICIPANTS admitted
  turnedAway  \* history: the users whose last capacity check ended in
              \*   navigate('/leaving', "This room is full.")

admVars == <<rows, hostId, apc, isHostL, planStatus, view, feed, kickNote,
             wasKicked, kicks, leaves, started, fullActs, turnedAway>>

VARIABLES
  rtc         \* the WebRTCProvider refs and state of the clients, the peer connection
              \*   objects, the signaling channel and the pending async continuations

VARIABLES
  lv          \* one client's leave sequence: the click handler, the two leaveRoom
              \*   calls it races, the pending timers and the navigate calls made

VARIABLES
  mesh        \* one client's WebRTCProvider maps, keyed by peer, with its peers'
              \*   connection objects and pending continuations

VARIABLES
  pl          \* one client's participants list, the participant rows of the room
              \*   and the realtime notifications and profile lookups under way

VARIABLES
  turn        \* the TurnCredentialManager: its fields, the clock, the fetch
              \*   promises and the calls waiting for them

vars == <<reducerVars, storeVars, admVars, rtc, lv, mesh, pl, turn>>

notReducer == <<storeVars, admVars, rtc, lv, mesh, pl, turn>>
notStore == <<reducerVars, admVars, rtc, lv, mesh, pl, turn>>
notAdm == <<reducerVars, storeVars, rtc, lv, mesh, pl, turn>>
notRtc == <<reducerVars, storeVars, admVars, lv, mesh, pl, turn>>
notLeave == <<reducerVars, storeVars, admVars, rtc, mesh, pl, turn>>
notMesh == <<reducerVars, storeVars, admVars, rtc, lv, pl, turn>>
notPl == <<reducerVars, storeVars, admVars, rtc, lv, mesh, turn>>
notTurn == <<reducerVars, storeVars, admVars, rtc, lv, mesh, pl>>

Clients == {"a1", "b2"}
ElemIds == 1..MaxElemId
Versions == {0, 1}
Tools == {"select", "pen"}
NoId == 0

BoardElement == [id : ElemIds, v : Versions]

\* Array.prototype.slice(0, n)
Slice(s, n) == SubSeq(s, 1, IF n < Len(s) THEN n ELSE Len(s))

\* Array.prototype.map with el => el.id === p.id ? p : el
MapReplace(els, p) == [i \in 1..Len(els) |-> IF els[i].id = p.id THEN p ELSE els[i]]

\* Array.prototype.filter with el => el.id !== id
RECURSIVE FilterOut(_, _)
FilterOut(els, id) ==
  IF els = <<>> THEN <<>>
  ELSE IF Head(els).id = id THEN FilterOut(Tail(els), id)
       ELSE <<Head(els)>> \o FilterOut(Tail(els), id)

getInitialState ==
  [elements |-> <<>>, history |-> <<(<<>>)>>, historyIndex |-> 0,
   selectedElementId |-> NoId, activeTool |-> "select", messages |-> <<>>]

\* variant: the redo branch beyond historyIndex is kept
PushHistory_NoTruncate(s, newElements) == Append(s.history, newElements)

\* history: [...state.history.slice(0, state.historyIndex + 1), newElements]
PushHistory(s, newElements) == Append(Slice(s.history, s.historyIndex + 1), newElements)

ReduceAddElement(s, payload) ==
  LET newElements == Append(s.elements, payload.element)
      newHistory == PushHistory(s, newElements)
  IN [s EXCEPT !.elements = newElements,
               !.history = newHistory,
               !.historyIndex = Len(newHistory) - 1,
               !.selectedElementId = IF payload.select THEN payload.element.id ELSE @,
               !.activeTool = IF payload.select THEN "select" ELSE @]

ReduceUpdateElement(s, payload) ==
  LET newElements == MapReplace(s.elements, payload)
      newHistory == PushHistory(s, newElements)
  IN [s EXCEPT !.elements = newElements,
               !.history = newHistory,
               !.historyIndex = Len(newHistory) - 1]

ReduceDeleteElement(s, payload) ==
  LET newElements == FilterOut(s.elements, payload.id)
      newHistory == PushHistory(s, newElements)
  IN [s EXCEPT !.elements = newElements,
               !.history = newHistory,
               !.historyIndex = Len(newHistory) - 1,
               !.selectedElementId = IF @ = payload.id THEN NoId ELSE @]

\* variant: the index moves back but the snapshot read is the current one
ReduceUndo_StaleSnapshot(s) ==
  IF s.historyIndex > 0
  THEN [s EXCEPT !.historyIndex = s.historyIndex - 1,
                 !.elements = s.history[s.historyIndex + 1],
                 !.selectedElementId = NoId]
  ELSE s

\* history is 0-indexed in the source: state.history[k] is history[k + 1] here
ReduceUndo(s) ==
  IF s.historyIndex > 0
  THEN LET newIndex == s.historyIndex - 1
       IN [s EXCEPT !.historyIndex = newIndex,
                    !.elements = s.history[newIndex + 1],
                    !.selectedElementId = NoId]
  ELSE s

ReduceRedo(s) ==
  IF s.historyIndex < Len(s.history) - 1
  THEN LET newIndex == s.historyIndex + 1
       IN [s EXCEPT !.historyIndex = newIndex,
                    !.elements = s.history[newIndex + 1],
                    !.selectedElementId = NoId]
  ELSE s

\* variant: the empty snapshot is pushed but the elements are kept
ReduceClearCanvas_KeepsElements(s) ==
  LET newHistory == PushHistory(s, <<>>)
  IN [s EXCEPT !.history = newHistory,
               !.historyIndex = Len(newHistory) - 1,
               !.selectedElementId = NoId]

ReduceClearCanvas(s) ==
  LET newHistory == PushHistory(s, <<>>)
  IN [s EXCEPT !.elements = <<>>,
               !.history = newHistory,
               !.historyIndex = Len(newHistory) - 1,
               !.selectedElementId = NoId]

\* variant: historyIndex is not reset with the history
ReduceSetInitialElements_KeepIndex(s, payload) ==
  [s EXCEPT !.elements = payload, !.history = <<payload>>]

ReduceSetInitialElements(s, payload) ==
  [s EXCEPT !.elements = payload, !.history = <<payload>>, !.historyIndex = 0]

\* the board cases of roomReducer; an action is [type, payload]
roomReducer(s, action) ==
  CASE action.type = "ADD_ELEMENT" -> ReduceAddElement(s, action.payload)
    [] action.type = "UPDATE_ELEMENT" -> ReduceUpdateElement(s, action.payload)
    [] action.type = "DELETE_ELEMENT" -> ReduceDeleteElement(s, action.payload)
    [] action.type = "UNDO" -> ReduceUndo(s)
    [] action.type = "REDO" -> ReduceRedo(s)
    [] action.type = "CLEAR_CANVAS" -> ReduceClearCanvas(s)
    [] action.type = "SET_INITIAL_ELEMENTS" -> ReduceSetInitialElements(s, action.payload)
    [] action.type = "SET_TOOL" ->
         [s EXCEPT !.activeTool = action.payload, !.selectedElementId = NoId]
    [] action.type = "SET_SELECTED_ELEMENT" ->
         [s EXCEPT !.selectedElementId = action.payload]
    [] action.type = "SEND_MESSAGE" ->
         IF \E i \in 1..Len(s.messages) : s.messages[i].id = action.payload.id
         THEN s
         ELSE [s EXCEPT !.messages = Append(@, action.payload)]
    [] action.type = "LEAVE_ROOM" -> getInitialState
    [] OTHER -> s

\* variant: UPDATE_ELEMENT events fall through to the default branch
applyEventToState_NoUpdate(elements, event) ==
  CASE event.event_type = "ADD_ELEMENT" -> Append(elements, event.data.element)
    [] event.event_type = "DELETE_ELEMENT" -> FilterOut(elements, event.data.id)
    [] event.event_type = "CLEAR_CANVAS" -> <<>>
    [] OTHER -> elements

\* an event is [user_id, event_type, data]
applyEventToState(elements, event) ==
  CASE event.event_type = "ADD_ELEMENT" -> Append(elements, event.data.element)
    [] event.event_type = "UPDATE_ELEMENT" -> MapReplace(elements, event.data)
    [] event.event_type = "DELETE_ELEMENT" -> FilterOut(elements, event.data.id)
    [] event.event_type = "CLEAR_CANVAS" -> <<>>
    [] OTHER -> elements

\* eventsRes.data.reduce(applyEventToState, [])
RECURSIVE Replay(_, _)
Replay(elements, events) ==
  IF events = <<>> THEN elements
  ELSE Replay(applyEventToState(elements, Head(events)), Tail(events))

(***************************************************************************)
(* Part I.a - the reducer on its own: any sequence of reducer actions      *)
(***************************************************************************)
MutatingTypes == {"ADD_ELEMENT", "UPDATE_ELEMENT", "DELETE_ELEMENT", "CLEAR_CANVAS"}

\* ids occurring in an elements array
IdsOf(els) == {els[i].id : i \in 1..Len(els)}

\* ids the client still knows of (current elements and undo snapshots)
KnownIds(s) == IdsOf(s.elements) \cup UNION {IdsOf(s.history[k]) : k \in 1..Len(s.history)}

\* element arrays of at most MaxStart elements without repeated ids (ids are generated unique)
StartArrays ==
  {els \in UNION {[1..n -> BoardElement] : n \in 0..MaxStart} :
     \A i, j \in 1..Len(els) : i # j => els[i].id # els[j].id}

\* the event dispatchAndBroadcast records for an action (data: action.payload, or {})
EventOf(user, action) ==
  [event_type |-> action.type,
   data |-> IF action.type \in {"ADD_ELEMENT", "UPDATE_ELEMENT", "DELETE_ELEMENT"}
            THEN action.payload ELSE [empty |-> TRUE],
   user_id |-> user]

NoPayload == [empty |-> TRUE]

\* the board actions the UI can dispatch in state s
AddActions(s) ==
  {[payload |-> [element |-> e, select |-> b], type |-> "ADD_ELEMENT"] :
     e \in {x \in BoardElement : x.id \notin KnownIds(s)}, b \in BOOLEAN}
UpdateActions == {[payload |-> e, type |-> "UPDATE_ELEMENT"] : e \in BoardElement}
DeleteActions == {[payload |-> [id |-> i], type |-> "DELETE_ELEMENT"] : i \in ElemIds}

\* bookkeeping of the history variables for one dispatched action
Track(action) ==
  /\ prev' = st
  /\ lastType' = action.type
  /\ IF action.type = "UNDO" /\ progress = 2
       THEN mark' = mark /\ progress' = 3
     ELSE IF action.type = "UNDO" /\ st.historyIndex > 0
       THEN mark' = st /\ progress' = 1
     ELSE IF action.type = "REDO" /\ progress = 1
       THEN mark' = mark /\ progress' = 2
     ELSE mark' = getInitialState /\ progress' = -1
  /\ IF action.type \in MutatingTypes
       THEN /\ pureSeq' = pureSeq
            /\ folded' = IF pureSeq THEN applyEventToState(folded, EventOf("a1", action))
                         ELSE <<>>
     ELSE IF action.type \in {"UNDO", "REDO"}
       THEN pureSeq' = FALSE /\ folded' = <<>>
     ELSE IF action.type = "SET_INITIAL_ELEMENTS"
       THEN pureSeq' = TRUE /\ folded' = action.payload
     ELSE IF action.type = "LEAVE_ROOM"
       THEN pureSeq' = TRUE /\ folded' = <<>>
     ELSE UNCHANGED <<pureSeq, folded>>

Dispatch(action) ==
  /\ st' = roomReducer(st, action)
  /\ Track(action)
  /\ UNCHANGED notReducer

RoomForHistory(s) == s.historyIndex + 2 <= MaxHistory

DispatchAddElement ==
  /\ RoomForHistory(st)
  /\ \E a \in AddActions(st) : Dispatch(a)

DispatchUpdateElement ==
  /\ RoomForHistory(st)
  /\ \E a \in UpdateActions : Dispatch(a)

DispatchDeleteElement ==
  /\ RoomForHistory(st)
  /\ \E a \in DeleteActions : Dispatch(a)

DispatchClearCanvas ==
  /\ RoomForHistory(st)
  /\ Dispatch([payload |-> NoPayload, type |-> "CLEAR_CANVAS"])

DispatchUndo == Dispatch([payload |-> NoPayload, type |-> "UNDO"])

DispatchRedo == Dispatch([payload |-> NoPayload, type |-> "REDO"])

DispatchSetInitialElements ==
  \E els \in StartArrays : Dispatch([payload |-> els, type |-> "SET_INITIAL_ELEMENTS"])

DispatchSetSelectedElement ==
  \E i \in IdsOf(st.elements) \cup {NoId} :
     Dispatch([payload |-> i, type |-> "SET_SELECTED_ELEMENT"])

DispatchLeaveRoom == Dispatch([payload |-> NoPayload, type |-> "LEAVE_ROOM"])

InitReducer ==
  /\ st = getInitialState
  /\ prev = getInitialState
  /\ lastType = ""
  /\ mark = getInitialState
  /\ progress = -1
  /\ folded = <<>>
  /\ pureSeq = TRUE

InitStore ==
  /\ room = [c \in Clients |-> getInitialState]
  /\ phase = [c \in Clients |-> "out"]
  /\ log = <<>>
  /\ outbox = [c \in Clients |-> <<>>]
  /\ cursor = [c \in Clients |-> 0]
  /\ usedIds = {}
  /\ throughout = [c \in Clients |-> FALSE]
  /\ fresh = [c \in Clients |-> FALSE]
  /\ msgs = <<>>
  /\ failed = 0
  /\ dispatched = [c \in Clients |-> <<>>]

TypeOKReducer ==
  /\ st.historyIndex \in Nat
  /\ Len(st.history) <= MaxHistory + 1

(***************************************************************************)
(* Part I.b - clients of one room sharing the persisted event log          *)
(***************************************************************************)
Issued == Len(log) + Len(msgs) + failed + Len(outbox["a1"]) + Len(outbox["b2"])

RemoveAt(s, k) == SubSeq(s, 1, k - 1) \o SubSeq(s, k + 1, Len(s))

\* channel.subscribe: the realtime feed of c starts at the current end of the table
Subscribe(c) ==
  /\ phase[c] = "out"
  /\ phase' = [phase EXCEPT ![c] = "subscribed"]
  /\ cursor' = [cursor EXCEPT ![c] = Len(log)]
  /\ throughout' = [throughout EXCEPT ![c] = (Len(log) = 0)]
  /\ UNCHANGED <<room, log, outbox, usedIds, fresh, msgs, failed, dispatched>>
  /\ UNCHANGED notStore

\* subscribe callback: read the events ordered by created_at, fold them, SET_INITIAL_ELEMENTS
LoadRoom(c) ==
  /\ phase[c] = "subscribed"
  /\ phase' = [phase EXCEPT ![c] = "loaded"]
  /\ room' = [room EXCEPT ![c] =
        roomReducer(@, [payload |-> Replay(<<>>, log), type |-> "SET_INITIAL_ELEMENTS"])]
  /\ throughout' = [throughout EXCEPT ![c] = @ /\ Len(log) = 0]
  /\ fresh' = [fresh EXCEPT ![c] = TRUE]
  /\ UNCHANGED <<log, outbox, cursor, usedIds, msgs, failed, dispatched>>
  /\ UNCHANGED notStore

\* variant: every dispatched action is inserted into the events table
InsertTable_EveryType(type) ==
  IF type = "SEND_MESSAGE" THEN "meetboard_messages" ELSE "meetboard_whiteboard_events"

\* the switch of dispatchAndBroadcast: the table an action of this type is
\* inserted into ("none": no backend call)
InsertTable(type) ==
  CASE type \in {"ADD_ELEMENT", "UPDATE_ELEMENT", "DELETE_ELEMENT"} ->
         "meetboard_whiteboard_events"
    [] type \in {"UNDO", "REDO", "CLEAR_CANVAS"} -> "meetboard_whiteboard_events"
    [] type = "SEND_MESSAGE" -> "meetboard_messages"
    [] OTHER -> "none"

\* the row dispatchAndBroadcast inserts for an action
InsertOf(user, action) ==
  IF action.type = "SEND_MESSAGE"
  THEN [event_type |-> "SEND_MESSAGE", data |-> [content |-> action.payload.content],
        user_id |-> user]
  ELSE EventOf(user, action)

\* dispatchAndBroadcast: the reducer runs first, then the insert is issued
\* (a loaded client has a currentUser)
dispatchAndBroadcast(c, action) ==
  /\ phase[c] = "loaded"
  /\ Issued < MaxLog
  /\ room' = [room EXCEPT ![c] = roomReducer(@, action)]
  /\ outbox' = IF InsertTable(action.type) = "none" THEN outbox
               ELSE [outbox EXCEPT ![c] = Append(@, InsertOf(c, action))]
  /\ dispatched' = IF InsertTable(action.type) = "meetboard_whiteboard_events"
                   THEN [dispatched EXCEPT ![c] = Append(@, InsertOf(c, action))]
                   ELSE dispatched
  /\ throughout' = [throughout EXCEPT ![c] = FALSE]
  /\ fresh' = [fresh EXCEPT ![c] = FALSE]
  /\ UNCHANGED <<phase, log, cursor, msgs, failed>>
  /\ UNCHANGED notStore

LocalAddElement(c) ==
  \E e \in {x \in BoardElement : x.id \notin usedIds /\ x.v = 0}, b \in BOOLEAN :
     /\ dispatchAndBroadcast(c, [payload |-> [element |-> e, select |-> b],
                                 type |-> "ADD_ELEMENT"])
     /\ usedIds' = usedIds \cup {e.id}

LocalUpdateElement(c) ==
  \E i \in 1..Len(room[c].elements) :
     /\ dispatchAndBroadcast(c, [payload |-> [room[c].elements[i] EXCEPT !.v = 1 - @],
             type |-> "UPDATE_ELEMENT"])
     /\ UNCHANGED usedIds

LocalDeleteElement(c) ==
  \E i \in 1..Len(room[c].elements) :
     /\ dispatchAndBroadcast(c, [payload |-> [id |-> room[c].elements[i].id],
             type |-> "DELETE_ELEMENT"])
     /\ UNCHANGED usedIds

LocalClearCanvas(c) ==
  /\ dispatchAndBroadcast(c, [payload |-> NoPayload, type |-> "CLEAR_CANVAS"])
  /\ UNCHANGED usedIds

LocalUndo(c) ==
  /\ dispatchAndBroadcast(c, [payload |-> NoPayload, type |-> "UNDO"])
  /\ UNCHANGED usedIds

LocalRedo(c) ==
  /\ dispatchAndBroadcast(c, [payload |-> NoPayload, type |-> "REDO"])
  /\ UNCHANGED usedIds

\* the chat form, handleSendMessage: the message id is the current time
LocalSendMessage(c) ==
  /\ dispatchAndBroadcast(c, [payload |-> [id |-> Issued + 1, content |-> "text",
                                           userId |-> c],
                              type |-> "SEND_MESSAGE"])
  /\ UNCHANGED usedIds

\* the toolbar: an action the switch of dispatchAndBroadcast has no case for
LocalSetTool(c) ==
  \E tool \in Tools :
     /\ tool # room[c].activeTool
     /\ dispatchAndBroadcast(c, [payload |-> tool, type |-> "SET_TOOL"])
     /\ UNCHANGED usedIds

\* the backend stores one of the inserts in flight; created_at is the arrival order
Persist(c) ==
  \E k \in 1..Len(outbox[c]) :
     /\ IF outbox[c][k].event_type = "SEND_MESSAGE"
        THEN /\ msgs' = Append(msgs, outbox[c][k])
             /\ UNCHANGED <<log, throughout, fresh>>
        ELSE /\ log' = Append(log, outbox[c][k])
             /\ throughout' = [throughout EXCEPT ![c] = FALSE]
             /\ fresh' = [d \in Clients |-> FALSE]
             /\ UNCHANGED msgs
     /\ outbox' = [outbox EXCEPT ![c] = RemoveAt(@, k)]
     /\ UNCHANGED <<room, phase, cursor, usedIds, failed, dispatched>>
     /\ UNCHANGED notStore

\* the backend rejects one of the inserts in flight: the awaited insert
\* resolves with an error (or throws into the catch, which logs it)
InsertFails(c) ==
  \E k \in 1..Len(outbox[c]) :
     /\ outbox' = [outbox EXCEPT ![c] = RemoveAt(@, k)]
     /\ failed' = failed + 1
     /\ UNCHANGED <<room, phase, log, cursor, usedIds, throughout, fresh, msgs, dispatched>>
     /\ UNCHANGED notStore

\* variant: the handler dispatches the client's own rows too
DeliverEvent_AppliesOwn(c) ==
  /\ phase[c] # "out"
  /\ cursor[c] < Len(log)
  /\ LET ev == log[cursor[c] + 1]
     IN /\ room' = [room EXCEPT ![c] =
              roomReducer(@, [payload |-> ev.data, type |-> ev.event_type])]
        /\ fresh' = [fresh EXCEPT ![c] = FALSE]
  /\ cursor' = [cursor EXCEPT ![c] = @ + 1]
  /\ UNCHANGED <<phase, log, outbox, usedIds, throughout, msgs, failed, dispatched>>
  /\ UNCHANGED notStore

\* whiteboard_events realtime handler: own rows are skipped, others are dispatched
DeliverEvent(c) ==
  /\ phase[c] # "out"
  /\ cursor[c] < Len(log)
  /\ LET ev == log[cursor[c] + 1]
     IN IF ev.user_id = c
        THEN UNCHANGED <<room, fresh>>
        ELSE /\ room' = [room EXCEPT ![c] =
                   roomReducer(@, [payload |-> ev.data, type |-> ev.event_type])]
             /\ fresh' = [fresh EXCEPT ![c] = FALSE]
  /\ cursor' = [cursor EXCEPT ![c] = @ + 1]
  /\ UNCHANGED <<phase, log, outbox, usedIds, throughout, msgs, failed, dispatched>>
  /\ UNCHANGED notStore

\* leaving or unmounting: the channel is removed and the provider state is dropped;
\* inserts already issued stay in flight
LeaveStore(c) ==
  /\ phase[c] # "out"
  /\ phase' = [phase EXCEPT ![c] = "out"]
  /\ room' = [room EXCEPT ![c] = getInitialState]
  /\ cursor' = [cursor EXCEPT ![c] = 0]
  /\ throughout' = [throughout EXCEPT ![c] = FALSE]
  /\ fresh' = [fresh EXCEPT ![c] = FALSE]
  /\ UNCHANGED <<log, outbox, usedIds, msgs, failed, dispatched>>
  /\ UNCHANGED notStore


(***************************************************************************)
(* Part II - admission control                                             *)
(***************************************************************************)
MAX_PARTICIPANTS == 5

\* one user more than the room admits; users open the room page for the
\* first time in the order of their index (they are interchangeable)
Users == 1..(MAX_PARTICIPANTS + 1)
NoUser == 0

NoRow == [status |-> "none", role |-> "none"]

AdmittedCount(r) == Cardinality({v \in Users : r[v].status = "admitted"})

\* clients whose participants list is tracked: hosts that have finished loading
HostIn(h) == apc[h] = "in" /\ isHostL[h]

\* a row change [user, status] is queued for every loaded host client
FeedWith(change) ==
  [h \in Users |-> IF HostIn(h) THEN Append(feed[h], change) ELSE feed[h]]

FeedHasRoom == \A h \in Users : HostIn(h) => Len(feed[h]) < MaxLag

Subscribed(u) == apc[u] \notin {"idle", "checked"}

\* RoomPage unmounts (navigate away): the effect cleanup deletes the client's own
\* participant row whatever its status, and the provider state is dropped
Unmount(u) ==
  /\ rows' = [rows EXCEPT ![u] = NoRow]
  /\ feed' = [h \in Users |->
                IF h = u THEN <<>>
                ELSE IF HostIn(h) /\ rows[u].status # "none"
                     THEN Append(feed[h], [user |-> u, status |-> "none"])
                     ELSE feed[h]]
  /\ apc' = [apc EXCEPT ![u] = "idle"]
  /\ isHostL' = [isHostL EXCEPT ![u] = FALSE]
  /\ planStatus' = [planStatus EXCEPT ![u] = "none"]
  /\ view' = [view EXCEPT ![u] = [v \in Users |-> "none"]]
  /\ kickNote' = [kickNote EXCEPT ![u] = FALSE]

CheckCapacity_NoFullCheck(u) ==
  /\ apc[u] = "idle"
  /\ u <= started + 1
  /\ Cardinality({v \in Users : apc[v] \notin {"idle", "in"}}) < MaxJoining
  /\ FeedHasRoom
  /\ started' = IF u > started THEN u ELSE started
  /\ apc' = [apc EXCEPT ![u] = "checked"]
  /\ turnedAway' = turnedAway \ {u}
  /\ UNCHANGED <<rows, feed, isHostL, planStatus, view, kickNote>>
  /\ UNCHANGED <<hostId, wasKicked, kicks, leaves,
                 fullActs>>
  /\ UNCHANGED notAdm

\* initializeAndSubscribe, first await: read the rows of the room and check capacity
CheckCapacity(u) ==
  /\ apc[u] = "idle"
  /\ u <= started + 1
  /\ Cardinality({v \in Users : apc[v] \notin {"idle", "in"}}) < MaxJoining
  /\ FeedHasRoom
  /\ started' = IF u > started THEN u ELSE started
  /\ LET admittedCount == AdmittedCount(rows)
         isAlreadyAdmitted == rows[u].status = "admitted"
     IN IF admittedCount >= MAX_PARTICIPANTS /\ ~isAlreadyAdmitted
        THEN \* navigate('/leaving', "This room is full.")
             /\ Unmount(u)
             /\ turnedAway' = turnedAway \cup {u}
        ELSE /\ apc' = [apc EXCEPT ![u] = "checked"]
             /\ turnedAway' = turnedAway \ {u}
             /\ UNCHANGED <<rows, feed, isHostL, planStatus, view, kickNote>>
  /\ UNCHANGED <<hostId, wasKicked, kicks, leaves,
                 fullActs>>
  /\ UNCHANGED notAdm

ReadRoom_OnlyRecordedHost(u) ==
  /\ apc[u] = "checked"
  /\ apc' = [apc EXCEPT ![u] = "gotRoom"]
  /\ isHostL' = [isHostL EXCEPT ![u] = (hostId = u)]
  /\ UNCHANGED <<rows, hostId, planStatus, view, feed, kickNote, wasKicked,
                 kicks, leaves, started,
                 fullActs, turnedAway>>
  /\ UNCHANGED notAdm

\* subscribe callback: read the room row and derive isHost
ReadRoom(u) ==
  /\ apc[u] = "checked"
  /\ apc' = [apc EXCEPT ![u] = "gotRoom"]
  /\ isHostL' = [isHostL EXCEPT ![u] = (hostId = NoUser \/ hostId = u)]
  /\ UNCHANGED <<rows, hostId, planStatus, view, feed, kickNote, wasKicked,
                 kicks, leaves, started,
                 fullActs, turnedAway>>
  /\ UNCHANGED notAdm

\* subscribe callback: read the own participant row; rejoin check; derive the status
ReadMyRow(u) ==
  /\ apc[u] = "gotRoom"
  /\ FeedHasRoom
  /\ IF rows[u].status \in {"removed", "denied"}
     THEN \* navigate('/leaving', "You cannot rejoin this meeting.")
          Unmount(u)
     ELSE /\ planStatus' = [planStatus EXCEPT ![u] =
                IF rows[u].status # "none" THEN rows[u].status
                ELSE IF isHostL[u] THEN "admitted" ELSE "pending"]
          /\ apc' = [apc EXCEPT ![u] = "gotRow"]
          /\ UNCHANGED <<rows, feed, isHostL, view, kickNote>>
  /\ UNCHANGED <<hostId, wasKicked, kicks, leaves, started,
                 fullActs, turnedAway>>
  /\ UNCHANGED notAdm

\* subscribe callback: a host that is not the recorded host upserts the room row
UpsertRoom(u) ==
  /\ apc[u] = "gotRow"
  /\ isHostL[u] /\ hostId # u
  /\ hostId' = u
  /\ apc' = [apc EXCEPT ![u] = "roomDone"]
  /\ UNCHANGED <<rows, isHostL, planStatus, view, feed, kickNote, wasKicked,
                 kicks, leaves, started,
                 fullActs, turnedAway>>
  /\ UNCHANGED notAdm

\* subscribe callback: upsert the own participant row with the derived status and role
UpsertParticipant(u) ==
  /\ \/ apc[u] = "roomDone"
     \/ apc[u] = "gotRow" /\ ~(isHostL[u] /\ hostId # u)
  /\ FeedHasRoom
  /\ rows' = [rows EXCEPT ![u] = [status |-> planStatus[u],
                                  role |-> IF isHostL[u] THEN "host" ELSE "participant"]]
  /\ feed' = FeedWith([user |-> u, status |-> planStatus[u]])
  /\ apc' = [apc EXCEPT ![u] = "upserted"]
  /\ UNCHANGED <<hostId, isHostL, planStatus, view, kickNote, wasKicked,
                 kicks, leaves, started,
                 fullActs, turnedAway>>
  /\ UNCHANGED notAdm

\* subscribe callback: fetch the participants and SET_PARTICIPANTS (isHost is
\* recomputed from the own entry's role)
FetchParticipants(u) ==
  /\ apc[u] = "upserted"
  /\ LET isNowHost == IF rows[u].status # "none" THEN rows[u].role = "host"
                      ELSE isHostL[u]
     IN /\ isHostL' = [isHostL EXCEPT ![u] = isNowHost]
        /\ view' = [view EXCEPT ![u] =
              IF isNowHost
              THEN [v \in Users |-> IF v = u /\ rows[u].status = "none"
                                    THEN planStatus[u] ELSE rows[v].status]
              ELSE [v \in Users |-> "none"]]
  /\ feed' = [feed EXCEPT ![u] = <<>>]
  /\ apc' = [apc EXCEPT ![u] = "in"]
  /\ UNCHANGED <<rows, hostId, planStatus, kickNote, wasKicked, kicks, leaves, started,
                 fullActs, turnedAway>>
  /\ UNCHANGED notAdm

\* participants realtime handler on a host client: ADD_PARTICIPANT / REMOVE_PARTICIPANT
DeliverParticipantChange(h) ==
  /\ HostIn(h)
  /\ feed[h] # <<>>
  /\ view' = [view EXCEPT ![h][Head(feed[h]).user] = Head(feed[h]).status]
  /\ feed' = [feed EXCEPT ![h] = Tail(@)]
  /\ UNCHANGED <<rows, hostId, apc, isHostL, planStatus, kickNote, wasKicked,
                 kicks, leaves, started,
                 fullActs, turnedAway>>
  /\ UNCHANGED notAdm

\* the UPDATE .eq(room_id).eq(user_id) of a host: changes the row if there is one
UpdateStatus(p, newStatus) ==
  IF rows[p].status = "none"
  THEN UNCHANGED <<rows, feed, kickNote, wasKicked>>
  ELSE /\ rows' = [rows EXCEPT ![p].status = newStatus]
       /\ feed' = FeedWith([user |-> p, status |-> newStatus])
       /\ kickNote' = [kickNote EXCEPT ![p] =
             @ \/ (newStatus \in {"denied", "removed"} /\ Subscribed(p))]
       /\ wasKicked' = [wasKicked EXCEPT ![p] = @ \/ newStatus \in {"denied", "removed"}]

AdmitParticipant_NoCapacityCheck(h, p) ==
  /\ HostIn(h)
  /\ view[h][p] = "pending"
  /\ FeedHasRoom
  /\ UpdateStatus(p, "admitted")
  /\ fullActs' = IF Cardinality({v \in Users : view[h][v] = "admitted"}) >= MAX_PARTICIPANTS
                 THEN fullActs \cup {"admit"}
                 ELSE fullActs
  /\ UNCHANGED <<hostId, apc, isHostL, planStatus, view, kicks, leaves, started, turnedAway>>
  /\ UNCHANGED notAdm

\* AdmissionModal.handleAdmission(true): shown for entries pending in the host's list
AdmitParticipant(h, p) ==
  /\ HostIn(h)
  /\ view[h][p] = "pending"
  /\ FeedHasRoom
  /\ LET currentParticipantCount == Cardinality({v \in Users : view[h][v] = "admitted"})
         isRoomFull == currentParticipantCount >= MAX_PARTICIPANTS
     IN IF isRoomFull
        THEN /\ UNCHANGED <<rows, feed, kickNote, wasKicked>>
             /\ fullActs' = fullActs \cup {"admit"}
        ELSE /\ UpdateStatus(p, "admitted")
             /\ UNCHANGED fullActs
  /\ UNCHANGED <<hostId, apc, isHostL, planStatus, view, kicks, leaves, started, turnedAway>>
  /\ UNCHANGED notAdm

\* AdmissionModal.handleAdmission(false)
DenyParticipant(h, p) ==
  /\ HostIn(h)
  /\ view[h][p] = "pending"
  /\ FeedHasRoom
  /\ kicks < MaxKicks
  /\ kicks' = kicks + 1
  /\ UpdateStatus(p, "denied")
  /\ fullActs' = IF Cardinality({v \in Users : view[h][v] = "admitted"}) >= MAX_PARTICIPANTS
                 THEN fullActs \cup {"deny"}
                 ELSE fullActs
  /\ UNCHANGED <<hostId, apc, isHostL, planStatus, view, leaves, started, turnedAway>>
  /\ UNCHANGED notAdm

\* ParticipantsList.handleRemoveParticipant: offered for admitted entries other than self
handleRemoveParticipant(h, p) ==
  /\ HostIn(h)
  /\ p # h
  /\ view[h][p] = "admitted"
  /\ FeedHasRoom
  /\ kicks < MaxKicks
  /\ kicks' = kicks + 1
  /\ UpdateStatus(p, "removed")
  /\ UNCHANGED <<hostId, apc, isHostL, planStatus, view, leaves, started,
                 fullActs, turnedAway>>
  /\ UNCHANGED notAdm

\* participants realtime handler on the client concerned: UPDATE of the own row to
\* denied/removed dispatches SET_KICKED; RoomPage then navigates to /leaving
KickedOut(u) ==
  /\ kickNote[u]
  /\ apc[u] # "idle"
  /\ FeedHasRoom
  /\ Unmount(u)
  /\ UNCHANGED <<hostId, wasKicked, kicks, leaves, started,
                 fullActs, turnedAway>>
  /\ UNCHANGED notAdm

\* leaveRoom deletes the own row, then the page navigates away and unmounts
LeaveRoom(u) ==
  /\ apc[u] = "in"
  /\ FeedHasRoom
  /\ leaves < MaxLeaves
  /\ leaves' = leaves + 1
  /\ Unmount(u)
  /\ UNCHANGED <<hostId, wasKicked, kicks, started,
                 fullActs, turnedAway>>
  /\ UNCHANGED notAdm

\* the tab is closed or reloaded while the client is in the room: the page
\* goes away without the effect cleanup having run, so the participant row stays
TabClosed(u) ==
  /\ apc[u] = "in"
  /\ leaves' = leaves + 1
  /\ apc' = [apc EXCEPT ![u] = "idle"]
  /\ isHostL' = [isHostL EXCEPT ![u] = FALSE]
  /\ planStatus' = [planStatus EXCEPT ![u] = "none"]
  /\ view' = [view EXCEPT ![u] = [v \in Users |-> "none"]]
  /\ feed' = [feed EXCEPT ![u] = <<>>]
  /\ kickNote' = [kickNote EXCEPT ![u] = FALSE]
  /\ UNCHANGED <<rows, hostId, wasKicked, kicks, started,
                 fullActs, turnedAway>>
  /\ UNCHANGED notAdm

InitAdmission ==
  /\ rows = [u \in Users |-> NoRow]
  /\ hostId = NoUser
  /\ apc = [u \in Users |-> "idle"]
  /\ isHostL = [u \in Users |-> FALSE]
  /\ planStatus = [u \in Users |-> "none"]
  /\ view = [u \in Users |-> [v \in Users |-> "none"]]
  /\ feed = [u \in Users |-> <<>>]
  /\ kickNote = [u \in Users |-> FALSE]
  /\ wasKicked = [u \in Users |-> FALSE]
  /\ kicks = 0
  /\ leaves = 0
  /\ started = 0
  /\ fullActs = {}
  /\ turnedAway = {}

(***************************************************************************)
(* Part III - peer-session orchestration (WebRTCProvider)                  *)
(*                                                                         *)
(* Two admitted clients, "a1" and "b2" (a1 has the smaller id), each with  *)
(* the other as its only remote peer.  rtc is a record:                    *)
(*   localStream[c], isStreamReady[c], signalQueue[c]                      *)
(*   isChannelReady[c], outgoingSignalQueue[c]                             *)
(*   peerConnections[c]   the pc registered under the peer (NoPc: none)    *)
(*   conns                the RTCPeerConnection objects ever constructed   *)
(*   pendingIceCandidates[c]  the array registered under the peer          *)
(*   arrays               the candidate arrays ever allocated              *)
(*   connectionAttempts[c]                                                 *)
(*   peerAdmitted[c]      the peer is admitted in c's participants list    *)
(*   net[c]               envelopes on the channel addressed to c          *)
(*   tasks                continuations waiting at an await (a bag)        *)
(*   effects, cands, failures, foreign   counters of the bounded events    *)
(*   addCount, buffered, rejected   history of every candidate: successful *)
(*                        adds, was buffered, was refused by a closed pc   *)
(*   offersSeen           history: the offers handed to handleSignal, with *)
(*                        the state of the registered pc and the outcome   *)
(***************************************************************************)
NoPc == 0
NoArr == 0
NoCand == 0
MaxReconnectAttempts == 3

Other(c) == IF c = "a1" THEN "b2" ELSE "a1"

\* the UTF-16 code units of the two participant ids of the model
CodeUnits(id) == IF id = "a1" THEN <<97, 49>> ELSE <<98, 50>>

\* the < operator on two strings: compared code unit by code unit, a proper
\* prefix is smaller
RECURSIVE StrLess(_, _)
StrLess(x, y) ==
  IF y = <<>> THEN FALSE
  ELSE IF x = <<>> THEN TRUE
  ELSE IF Head(x) # Head(y) THEN Head(x) < Head(y)
  ELSE StrLess(Tail(x), Tail(y))

\* currentUser.id < peerId
IdLess(x, y) == StrLess(CodeUnits(x), CodeUnits(y))

NoDesc == [type |-> "none", of |-> NoPc]

\* new RTCPeerConnection(config)
NewPc(c) ==
  [owner |-> c, signalingState |-> "stable", localDescription |-> NoDesc,
   remoteDescription |-> NoDesc, added |-> <<>>]

\* the payload handed to handleSignal; the sender is the other client.
\* of: the pc whose description this is; cand: the candidate carried
Envelope(type, of, cand) == [of |-> of, cand |-> cand, signal_type |-> type]

\* a continuation of client c: pc is the connection it holds, target the one it
\* looked up in peerConnections, of the remote description it applies, arr/idx
\* the array it iterates and the next position
Task(c, kind, step, pc, target, of, arr, idx) ==
  [c |-> c, of |-> of, kind |-> kind, step |-> step, pc |-> pc,
   target |-> target, arr |-> arr, idx |-> idx]

Spawn(w, t) == [w EXCEPT !.tasks = @ (+) SetToBag({t})]
Finish(w, t) == [w EXCEPT !.tasks = @ (-) SetToBag({t})]
Continue(w, t, u) == Spawn(Finish(w, t), u)

Live(w, k) == w.conns[k].signalingState # "closed"

\* pc.close(); peerConnections.current.delete(peerId)
CloseAndDelete(w, c) ==
  LET k == w.peerConnections[c]
  IN IF k = NoPc THEN w
     ELSE [w EXCEPT !.conns[k].signalingState = "closed",
                    !.peerConnections[c] = NoPc]

\* a participants effect cleaning up the peer: pc.close(), peerConnections.delete
\* and setPeerStreams(delete), all inside the forEach over the registered pcs
DropPeer(w, c) ==
  IF w.peerConnections[c] = NoPc THEN w
  ELSE [CloseAndDelete(w, c) EXCEPT !.peerStreams[c] = FALSE]

\* the signaling channel of client c is subscribed and has not been removed
Listening(w, c) == w.channelRef[c] /\ w.isChannelReady[c]

sendSignal(w, c, env) ==
  IF ~w.channelRef[c] \/ ~w.isChannelReady[c]
  THEN [w EXCEPT !.outgoingSignalQueue[c] = Append(@, env),
                 !.produced[c] = Append(@, env)]
  ELSE IF Listening(w, Other(c))
       THEN [w EXCEPT !.net[Other(c)] = Append(@, env),
                      !.produced[c] = Append(@, env), !.sent[c] = Append(@, env)]
       ELSE \* a broadcast nobody is subscribed to is not delivered
            [w EXCEPT !.produced[c] = Append(@, env), !.sent[c] = Append(@, env)]

\* await pc.addIceCandidate(...) inside try/catch: a closed pc rejects
addIceCandidate(w, k, cand) ==
  IF Live(w, k)
  THEN [w EXCEPT !.conns[k].added = Append(@, cand),
                 !.addCount[cand] = @ + 1]
  ELSE [w EXCEPT !.rejected[cand] = TRUE]

\* arr = pendingIceCandidates.get(sender) || []; arr.push(c); set(sender, arr)
QueueCandidate(w, c, cand) ==
  LET a == w.pendingIceCandidates[c]
  IN IF a = NoArr
     THEN [w EXCEPT !.arrays = Append(@, <<cand>>),
                    !.pendingIceCandidates[c] = Len(w.arrays) + 1,
                    !.buffered[cand] = TRUE]
     ELSE [w EXCEPT !.arrays[a] = Append(@, cand),
                    !.buffered[cand] = TRUE]

attemptReconnection_LargerIdOffers(w, c) ==
  IF w.connectionAttempts[c] >= MaxReconnectAttempts THEN [w EXCEPT !.capped[c] = TRUE]
  ELSE LET w1 == [w EXCEPT !.connectionAttempts[c] = @ + 1, !.reconnects[c] = @ + 1]
           w2 == CloseAndDelete(w1, c)
       IN IF IdLess(Other(c), c)
          THEN Spawn(w2, Task(c, "reconnect", "config", NoPc, NoPc, NoPc, NoArr, 0))
          ELSE w2

attemptReconnection_CapOffByOne(w, c) ==
  IF w.connectionAttempts[c] > MaxReconnectAttempts THEN [w EXCEPT !.capped[c] = TRUE]
  ELSE LET w1 == [w EXCEPT !.connectionAttempts[c] = @ + 1, !.reconnects[c] = @ + 1]
           w2 == CloseAndDelete(w1, c)
       IN IF IdLess(c, Other(c))
          THEN Spawn(w2, Task(c, "reconnect", "config", NoPc, NoPc, NoPc, NoArr, 0))
          ELSE w2

\* attemptReconnection up to its first await.  History: reconnects[c] counts the
\* runs that got past the cap since the last connected event, capped[c] records
\* a run that stopped at the cap
attemptReconnection(w, c) ==
  IF w.connectionAttempts[c] >= MaxReconnectAttempts THEN [w EXCEPT !.capped[c] = TRUE]
  ELSE LET w1 == [w EXCEPT !.connectionAttempts[c] = @ + 1, !.reconnects[c] = @ + 1]
           w2 == CloseAndDelete(w1, c)
       IN IF IdLess(c, Other(c))
          THEN Spawn(w2, Task(c, "reconnect", "config", NoPc, NoPc, NoPc, NoArr, 0))
          ELSE w2

\* history: an offer was handed to client c while its registered pc was in state
Seen(w, c, of, state, outcome) ==
  [w EXCEPT !.offersSeen = @ \cup {[c |-> c, of |-> of, state |-> state,
                                     outcome |-> outcome]}]

\* const amInitiator = currentUser!.id < sender_id
amInitiator_Reversed(me, sender) == IdLess(sender, me)

amInitiator(me, sender) == IdLess(me, sender)

\* handleSignal up to its first await (handled: history of its calls)
handleSignal(w0, c, env) ==
  LET w == [w0 EXCEPT !.handled[c] = Append(@, env)]
      pc == w.peerConnections[c]
  IN CASE env.signal_type = "offer" ->
            IF pc = NoPc
            THEN Spawn(Seen(w, c, env.of, "none", "created"),
                       Task(c, "handleOffer", "config", NoPc, NoPc, env.of, NoArr, 0))
            ELSE IF amInitiator(c, Other(c)) /\ w.conns[pc].signalingState # "stable"
                 THEN Seen(w, c, env.of, w.conns[pc].signalingState, "ignored")
                 ELSE Spawn(Seen(w, c, env.of, w.conns[pc].signalingState, "accepted"),
                            Task(c, "handleOffer", "setRemote", pc, NoPc, env.of, NoArr, 0))
       [] env.signal_type = "answer" ->
            IF pc # NoPc
            THEN Spawn(w, Task(c, "handleAnswer", "setRemote", pc, NoPc, env.of, NoArr, 0))
            ELSE w
       [] env.signal_type = "ice-candidate" ->
            IF pc = NoPc THEN QueueCandidate(w, c, env.cand)
            ELSE IF w.conns[pc].remoteDescription.type # "none"
                 THEN addIceCandidate(w, pc, env.cand)
                 ELSE QueueCandidate(w, c, env.cand)
       [] env.signal_type = "connection-failed" ->
            IF pc # NoPc THEN attemptReconnection(w, c) ELSE w

\* signalQueue.current.forEach(signalPayload => handleSignal(signalPayload))
RECURSIVE ReplaySignals(_, _, _)
ReplaySignals(w, c, q) ==
  IF q = <<>> THEN w
  ELSE ReplaySignals(handleSignal(w, c, Head(q)), c, Tail(q))

ChannelSubscribed_KeepsQueue(c) ==
  /\ rtc.channelRef[c]
  /\ ~rtc.isChannelReady[c]
  /\ rtc' = [rtc EXCEPT !.isChannelReady[c] = TRUE,
                        !.net[Other(c)] = IF Listening(rtc, Other(c))
                                          THEN @ \o rtc.outgoingSignalQueue[c]
                                          ELSE @,
                        !.sent[c] = @ \o rtc.outgoingSignalQueue[c]]
  /\ UNCHANGED notRtc

\* channel.subscribe callback with status SUBSCRIBED: flush the outgoing queue
\* (produced, sent: histories of the sendSignal calls and of the channel.send
\* calls of client c)
ChannelSubscribed(c) ==
  /\ rtc.channelRef[c]
  /\ ~rtc.isChannelReady[c]
  /\ rtc' = [rtc EXCEPT !.isChannelReady[c] = TRUE,
                        !.net[Other(c)] = IF Listening(rtc, Other(c))
                                          THEN @ \o rtc.outgoingSignalQueue[c]
                                          ELSE @,
                        !.sent[c] = @ \o rtc.outgoingSignalQueue[c],
                        !.flushed[c] = Len(rtc.outgoingSignalQueue[c]) >= 2,
                        !.outgoingSignalQueue[c] = <<>>]
  /\ UNCHANGED notRtc

\* startMedia: getUserMedia succeeded on some tier (ok) or failed on all four;
\* either way isStreamReady is set and the queued signals are replayed
startMedia(c) ==
  /\ ~rtc.isStreamReady[c]
  /\ \E ok \in BOOLEAN :
       rtc' = ReplaySignals([rtc EXCEPT !.isStreamReady[c] = TRUE,
                                        !.replayedSome[c] = Len(rtc.signalQueue[c]) >= 2,
                                        !.localStream[c] = ok,
                                        !.signalQueue[c] = <<>>],
                            c, rtc.signalQueue[c])
  /\ UNCHANGED notRtc

\* getConstraints(attempt): the quality tier requested by the attempt
getConstraints(attempt) ==
  CASE attempt = 0 -> "high"
    [] attempt = 1 -> "medium"
    [] attempt = 2 -> "low"
    [] OTHER -> "audio-only"

MediaAttempts == 4

\* variant: the last failed attempt leaves the client waiting
GetUserMediaRejected_NeverReady(c) ==
  /\ ~rtc.isStreamReady[c]
  /\ Len(rtc.tried[c]) < MediaAttempts
  /\ rtc' = [rtc EXCEPT !.tried[c] = Append(@, getConstraints(Len(@)))]
  /\ UNCHANGED notRtc

\* one pass of the retry loop of startMedia whose getUserMedia call resolves:
\* the stream is kept, isStreamReady is set, the queued signals are replayed
\* and the loop is left (tried: history of the tiers requested so far)
GetUserMediaResolved(c) ==
  /\ ~rtc.isStreamReady[c]
  /\ Len(rtc.tried[c]) < MediaAttempts
  /\ rtc' = ReplaySignals([rtc EXCEPT !.tried[c] = Append(@, getConstraints(Len(@))),
                                      !.isStreamReady[c] = TRUE,
                                      !.replayedSome[c] = Len(rtc.signalQueue[c]) >= 2,
                                      !.localStream[c] = TRUE,
                                      !.signalQueue[c] = <<>>],
                          c, rtc.signalQueue[c])
  /\ UNCHANGED notRtc

\* one pass of the retry loop whose getUserMedia call rejects: the catch logs,
\* and after the fourth failure sets isStreamReady and replays the queue
GetUserMediaRejected(c) ==
  /\ ~rtc.isStreamReady[c]
  /\ Len(rtc.tried[c]) < MediaAttempts
  /\ LET attempt == Len(rtc.tried[c])
         w1 == [rtc EXCEPT !.tried[c] = Append(@, getConstraints(attempt))]
     IN rtc' = IF attempt = MediaAttempts - 1
               THEN ReplaySignals([w1 EXCEPT !.isStreamReady[c] = TRUE,
                                             !.replayedSome[c] = Len(rtc.signalQueue[c]) >= 2,
                                             !.signalQueue[c] = <<>>],
                                  c, rtc.signalQueue[c])
               ELSE w1
  /\ UNCHANGED notRtc

handleBroadcast_NoReadyCheck(c) ==
  /\ Listening(rtc, c)
  /\ rtc.net[c] # <<>>
  /\ LET env == Head(rtc.net[c])
         w1 == [rtc EXCEPT !.net[c] = Tail(@), !.heard[c] = Append(@, env)]
     IN rtc' = handleSignal(w1, c, env)
  /\ UNCHANGED notRtc

\* the channel hands client c the next envelope addressed to it (heard:
\* history of the envelopes in arrival order)
handleBroadcast(c) ==
  /\ Listening(rtc, c)
  /\ rtc.net[c] # <<>>
  /\ LET env == Head(rtc.net[c])
         w1 == [rtc EXCEPT !.net[c] = Tail(@), !.heard[c] = Append(@, env)]
     IN rtc' = IF rtc.isStreamReady[c]
               THEN handleSignal(w1, c, env)
               ELSE [w1 EXCEPT !.signalQueue[c] = Append(@, env)]
  /\ UNCHANGED notRtc

\* the two participants effects of client c, run on its current list: the
\* removed-participant effect, then the connect/cleanup effect
RunEffects(w, c) ==
  LET status == w.peerStatus[c]
      w2 == IF status = "none" THEN DropPeer(w, c) ELSE w
  IN IF ~w2.localStream[c] THEN w2
     ELSE IF status = "admitted"
          THEN IF w2.peerConnections[c] = NoPc /\ IdLess(c, Other(c))
               THEN Spawn(w2, Task(c, "effectOffer", "config", NoPc, NoPc, NoPc, NoArr, 0))
               ELSE w2
          ELSE DropPeer(w2, c)

\* the participants list of client c changed (a new array): both effects run.
\* status is the peer's entry in the new list ("none": no entry; "pending"
\* stands for every status other than admitted, which the effects treat alike)
ParticipantsEffect(c, status) ==
  /\ rtc.localStream[c] => rtc.effects < MaxEffects
  /\ rtc' = RunEffects([rtc EXCEPT !.effects = IF rtc.localStream[c] THEN @ + 1 ELSE @,
                                   !.peerStatus[c] = status], c)
  /\ UNCHANGED notRtc

\* the participants list of client c changed in c's own entry: both effects run
\* (neither reads the entry of currentUser)
OwnStatusEffect(c, status) ==
  /\ rtc.localStream[c] => rtc.effects < MaxEffects
  /\ rtc.ownStatus[c] # status
  /\ rtc' = RunEffects([rtc EXCEPT !.effects = IF rtc.localStream[c] THEN @ + 1 ELSE @,
                                   !.ownStatus[c] = status], c)
  /\ UNCHANGED notRtc

\* createPeerConnection after await getPeerConnectionConfig(): construct the pc and
\* register it under the peer
createPeerConnection(t) ==
  /\ t.step = "config"
  /\ LET k == Len(rtc.conns) + 1
         w1 == [rtc EXCEPT !.conns = Append(@, NewPc(t.c)),
                           !.peerConnections[t.c] = k]
     IN rtc' = Continue(w1, t, [t EXCEPT !.pc = k,
                   !.step = IF t.kind = "handleOffer" THEN "setRemote" ELSE "created"])
  /\ UNCHANGED notRtc

\* pc.createOffer() resolved; the effect's chain looks the pc up again before
\* setLocalDescription, attemptReconnection keeps its own
CreateOfferResolved(t) ==
  /\ t.step = "created"
  /\ LET g == IF t.kind = "reconnect" THEN t.pc ELSE rtc.peerConnections[t.c]
     IN rtc' = IF ~Live(rtc, t.pc) \/ g = NoPc
               THEN Finish(rtc, t)
               ELSE Continue(rtc, t, [t EXCEPT !.target = g, !.step = "setLocal"])
  /\ UNCHANGED notRtc

\* pc.setLocalDescription(offer) settled, then sendSignal(peer, 'offer', ...).
\* An offer created by another pc may or may not be accepted by the browser
SetLocalOfferResolved(t) ==
  /\ t.step = "setLocal"
  /\ \E accept \in (IF t.target = t.pc THEN {TRUE} ELSE BOOLEAN) :
       LET k == t.target
           valid == /\ Live(rtc, k)
                    /\ rtc.conns[k].signalingState \in {"stable", "have-local-offer"}
                    /\ accept
           w1 == [rtc EXCEPT !.conns[k].signalingState = "have-local-offer",
                             !.conns[k].localDescription = [type |-> "offer", of |-> t.pc]]
           g == IF t.kind = "reconnect" THEN t.pc ELSE w1.peerConnections[t.c]
       IN rtc' = IF ~valid THEN Finish(rtc, t)
                 ELSE IF g # NoPc /\ w1.conns[g].localDescription.type # "none"
                      THEN Finish(sendSignal(w1, t.c,
                              Envelope("offer", w1.conns[g].localDescription.of, NoCand)), t)
                      ELSE Finish(w1, t)
  /\ UNCHANGED notRtc

\* after setRemoteDescription: flushPendingIceCandidates starts, or is skipped
AfterRemoteDescription(w, t) ==
  LET a == w.pendingIceCandidates[t.c]
  IN IF a # NoArr
     THEN Continue(w, t, [t EXCEPT !.step = "flush", !.arr = a, !.idx = 1])
     ELSE IF t.kind = "handleOffer"
          THEN Continue(w, t, [t EXCEPT !.step = "answer"])
          ELSE Finish(w, t)

\* pc.setRemoteDescription(offer | answer) settled.  A remote offer on a pc in
\* have-local-offer is rolled back to or rejected, depending on the browser
SetRemoteResolved(t) ==
  /\ t.step = "setRemote"
  /\ LET k == t.pc
         type == IF t.kind = "handleOffer" THEN "offer" ELSE "answer"
         s == rtc.conns[k].signalingState
     IN \E rollback \in (IF type = "offer" /\ s = "have-local-offer"
                         THEN BOOLEAN ELSE {FALSE}) :
          LET valid == IF type = "offer"
                       THEN s \in {"stable", "have-remote-offer"} \/ rollback
                       ELSE s = "have-local-offer"
              w1 == [rtc EXCEPT
                       !.conns[k].remoteDescription = [type |-> type, of |-> t.of],
                       !.conns[k].localDescription = IF rollback THEN NoDesc ELSE @,
                       !.conns[k].signalingState =
                           IF type = "offer" THEN "have-remote-offer" ELSE "stable"]
          IN rtc' = IF valid THEN AfterRemoteDescription(w1, t) ELSE Finish(rtc, t)
  /\ UNCHANGED notRtc

\* flushPendingIceCandidates: one await pc.addIceCandidate of the loop settled; after
\* the last element the map entry is deleted
FlushStep(t) ==
  /\ t.step = "flush"
  /\ LET w1 == addIceCandidate(rtc, t.pc, rtc.arrays[t.arr][t.idx])
         w2 == [w1 EXCEPT !.pendingIceCandidates[t.c] = NoArr]
     IN rtc' = IF t.idx < Len(rtc.arrays[t.arr])
               THEN Continue(w1, t, [t EXCEPT !.idx = @ + 1])
               ELSE IF t.kind = "handleOffer"
                    THEN Continue(w2, t, [t EXCEPT !.step = "answer"])
                    ELSE Finish(w2, t)
  /\ UNCHANGED notRtc

\* createAnswer and setLocalDescription(answer) settled, then sendSignal 'answer'
AnswerResolved(t) ==
  /\ t.step = "answer"
  /\ LET k == t.pc
         valid == rtc.conns[k].signalingState = "have-remote-offer"
         w1 == [rtc EXCEPT !.conns[k].signalingState = "stable",
                           !.conns[k].localDescription = [type |-> "answer", of |-> k]]
     IN rtc' = IF valid
               THEN Finish(sendSignal(w1, t.c, Envelope("answer", k, NoCand)), t)
               ELSE Finish(rtc, t)
  /\ UNCHANGED notRtc

\* pc.onicecandidate with a candidate: gathering runs once a local description is set
onicecandidate(c) ==
  /\ rtc.cands < MaxCands
  /\ \E k \in 1..Len(rtc.conns) :
       /\ rtc.conns[k].owner = c
       /\ Live(rtc, k)
       /\ rtc.conns[k].localDescription.type # "none"
       /\ rtc' = sendSignal([rtc EXCEPT !.cands = @ + 1], c,
                            Envelope("ice-candidate", k, rtc.cands + 1))
  /\ UNCHANGED notRtc

\* pc.ontrack: a track of the peer arrives on a live pc of client c whose remote
\* description is set; the peer added tracks only if it had a local stream
ontrack(c) ==
  /\ ~rtc.peerStreams[c]
  /\ rtc.localStream[Other(c)]
  /\ \E k \in 1..Len(rtc.conns) :
       /\ rtc.conns[k].owner = c
       /\ Live(rtc, k)
       /\ rtc.conns[k].remoteDescription.type # "none"
  /\ rtc' = [rtc EXCEPT !.peerStreams[c] = TRUE]
  /\ UNCHANGED notRtc

\* pc.oniceconnectionstatechange: failed/disconnected for two seconds
oniceconnectionstatechange(c) ==
  /\ \E k \in 1..Len(rtc.conns) :
       /\ rtc.conns[k].owner = c
       /\ Live(rtc, k)
       /\ rtc.conns[k].localDescription.type # "none"
       /\ rtc.conns[k].remoteDescription.type # "none"
       /\ rtc' = sendSignal([rtc EXCEPT !.failures = @ + 1], c,
                            Envelope("connection-failed", k, NoCand))
  /\ UNCHANGED notRtc

onconnected_NoReset(c) ==
  /\ \E k \in 1..Len(rtc.conns) :
       /\ rtc.conns[k].owner = c
       /\ Live(rtc, k)
       /\ rtc.conns[k].signalingState = "stable"
       /\ rtc.conns[k].localDescription.type # "none"
       /\ rtc.conns[k].remoteDescription.type # "none"
  /\ rtc' = [rtc EXCEPT !.reconnects[c] = 0,
                         !.resetFrom[c] = Append(@, rtc.connectionAttempts[c])]
  /\ UNCHANGED notRtc

\* pc.oniceconnectionstatechange / onconnectionstatechange: a connection of
\* client c whose negotiation completed reports connected (resetFrom: history
\* of the counter values these events found)
onconnected(c) ==
  /\ \E k \in 1..Len(rtc.conns) :
       /\ rtc.conns[k].owner = c
       /\ Live(rtc, k)
       /\ rtc.conns[k].signalingState = "stable"
       /\ rtc.conns[k].localDescription.type # "none"
       /\ rtc.conns[k].remoteDescription.type # "none"
  /\ rtc' = [rtc EXCEPT !.connectionAttempts[c] = 0, !.reconnects[c] = 0,
                         !.resetFrom[c] = Append(@, rtc.connectionAttempts[c])]
  /\ UNCHANGED notRtc

\* WebRTCProvider.leaveRoom up to its await: stop and clear the local stream,
\* detach the handlers of every registered pc and close it, clear the map and
\* peerStreams, then remove the channel if there is one
leaveWebRTCRoom(c) ==
  /\ rtc.leaveCalls["a1"] + rtc.leaveCalls["b2"] < MaxLeaveCalls
  /\ LET w1 == [rtc EXCEPT !.leaveCalls[c] = @ + 1, !.localStream[c] = FALSE]
         w2 == [CloseAndDelete(w1, c) EXCEPT !.peerStreams[c] = FALSE]
     IN rtc' = IF w2.channelRef[c]
               THEN Spawn(w2, Task(c, "leaveRoom", "removeChannel", NoPc, NoPc, NoPc, NoArr, 0))
               ELSE [w2 EXCEPT !.connectionAttempts[c] = 0, !.reconnects[c] = 0,
                               !.leaveDone[c] = @ + 1]
  /\ UNCHANGED notRtc

\* await supabase.removeChannel(channelRef.current) resolved (channelRef is
\* set to null) or rejected (caught and logged); then connectionAttempts is
\* cleared. leaveDone counts the calls that returned with the channel removed
RemoveChannelSettled(t) ==
  /\ t.kind = "leaveRoom"
  /\ \E ok \in BOOLEAN :
       LET w1 == IF ok THEN [rtc EXCEPT !.channelRef[t.c] = FALSE, !.net[t.c] = <<>>,
                                        !.leaveDone[t.c] = @ + 1]
                 ELSE rtc
       IN rtc' = Finish([w1 EXCEPT !.connectionAttempts[t.c] = 0,
                                   !.reconnects[t.c] = 0], t)
  /\ UNCHANGED notRtc

\* an offer addressed to a1 in b2's name reaches the channel although b2's client
\* creates none (handleBroadcast takes any envelope whose receiver_id is its own)
ForeignOffer ==
  /\ rtc.foreign < MaxForeign
  /\ Listening(rtc, "a1")
  /\ rtc' = [rtc EXCEPT !.foreign = @ + 1,
                        !.net["a1"] = Append(@, Envelope("offer", -(rtc.foreign + 1), NoCand))]
  /\ UNCHANGED notRtc

InitRtc ==
  rtc = [localStream |-> [c \in Clients |-> FALSE],
         isStreamReady |-> [c \in Clients |-> FALSE],
         signalQueue |-> [c \in Clients |-> <<>>],
         isChannelReady |-> [c \in Clients |-> FALSE],
         channelRef |-> [c \in Clients |-> TRUE],
         heard |-> [c \in Clients |-> <<>>],
         produced |-> [c \in Clients |-> <<>>],
         sent |-> [c \in Clients |-> <<>>],
         flushed |-> [c \in Clients |-> FALSE],
         replayedSome |-> [c \in Clients |-> FALSE],
         handled |-> [c \in Clients |-> <<>>],
         leaveCalls |-> [c \in Clients |-> 0],
         leaveDone |-> [c \in Clients |-> 0],
         outgoingSignalQueue |-> [c \in Clients |-> <<>>],
         peerConnections |-> [c \in Clients |-> NoPc],
         conns |-> <<>>,
         pendingIceCandidates |-> [c \in Clients |-> NoArr],
         arrays |-> <<>>,
         connectionAttempts |-> [c \in Clients |-> 0],
         peerStatus |-> [c \in Clients |-> "none"],
         peerStreams |-> [c \in Clients |-> FALSE],
         ownStatus |-> [c \in Clients |-> "none"],
         reconnects |-> [c \in Clients |-> 0],
         capped |-> [c \in Clients |-> FALSE],
         resetFrom |-> [c \in Clients |-> <<>>],
         tried |-> [c \in Clients |-> <<>>],
         net |-> [c \in Clients |-> <<>>],
         tasks |-> EmptyBag,
         effects |-> 0,
         cands |-> 0,
         failures |-> 0,
         addCount |-> [k \in 1..MaxCands |-> 0],
         buffered |-> [k \in 1..MaxCands |-> FALSE],
         rejected |-> [k \in 1..MaxCands |-> FALSE],
         foreign |-> 0,
         offersSeen |-> {}]

(***************************************************************************)
(* Part IV - the leave sequence (MediaControls.handleLeaveRoom,            *)
(* RoomPageContent.handleConfirmAndGoHome, RoomProvider.leaveRoom,         *)
(* WebRTCProvider.leaveRoom)                                               *)
(*                                                                         *)
(* Time is counted in steps of 500 ms.  One step of the model is one task   *)
(* of the event loop: a click, a timer callback or the settling of a       *)
(* backend promise, together with every continuation (microtask) that it   *)
(* makes runnable.  A backend call may settle at any time or never.        *)
(***************************************************************************)
\* setTimeout delays, in steps of 500 ms
ForcedDelay == 6
RaceDelay == 5
SettleDelay == 4
NoTimer == -1
TimerKinds == {"forced", "race1", "race2", "settle1", "settle2"}

setTimeout(l, kind, delay) == [l EXCEPT !.timers[kind] = l.now + delay]

clearTimeout(l, kind) == [l EXCEPT !.timers[kind] = NoTimer]

navigate(l, to) == [l EXCEPT !.navigations = Append(@, to)]

\* the end of the click handler, after the second race: if (!forced) { ... }
EndOfCleanup_NoForcedCheck(l) ==
  [navigate(clearTimeout(l, "forced"), l.target) EXCEPT !.handler = "done"]

EndOfCleanup(l) ==
  IF ~l.forced
    THEN [navigate(clearTimeout(l, "forced"), l.target) EXCEPT !.handler = "done"]
    ELSE [l EXCEPT !.handler = "done"]

\* RoomProvider.leaveRoom has returned: the second race of the handler settles
RoomLeaveFinished(l) ==
  LET m == [l EXCEPT !.roomLeave = "done"]
  IN IF m.handler = "race2" THEN EndOfCleanup(m) ELSE m

\* RoomProvider.leaveRoom, step 2: delete the participant row (timed)
RoomLeaveDelete(l) ==
  IF l.hasUser
    THEN setTimeout([l EXCEPT !.roomLeave = "delete"], "settle2", SettleDelay)
    ELSE RoomLeaveFinished(l)

\* RoomProvider.leaveRoom up to its first await
leaveRoom(l) ==
  LET m == [l EXCEPT !.isExiting = TRUE]
  IN IF m.roomChannel
       THEN setTimeout([m EXCEPT !.roomLeave = "removeChannel"], "settle1", SettleDelay)
       ELSE RoomLeaveDelete(m)

\* the click handler between its two races
AfterFirstRace(l) ==
  leaveRoom(setTimeout([l EXCEPT !.handler = "race2"], "race2", RaceDelay))

\* WebRTCProvider.leaveRoom has returned
RtcLeaveFinished(l) ==
  LET m == [l EXCEPT !.rtcLeave = "done"]
  IN IF m.handler = "race1" THEN AfterFirstRace(m) ELSE m

\* WebRTCProvider.leaveRoom up to its await
leaveRoomFromWebRTC(l) ==
  IF l.rtcChannel
    THEN [l EXCEPT !.rtcLeave = "removeChannel"]
    ELSE [l EXCEPT !.rtcLeave = "done", !.rtcChannel = FALSE]

\* the click handler up to its first await; a promise that is already
\* resolved wins the race in the same task
StartCleanup(l, to) ==
  LET a == [l EXCEPT !.isExiting = TRUE, !.target = to, !.forced = FALSE,
                     !.handler = "race1"]
      b == setTimeout(a, "forced", ForcedDelay)
      c == setTimeout(leaveRoomFromWebRTC(b), "race1", RaceDelay)
  IN IF c.rtcLeave = "done" THEN AfterFirstRace(c) ELSE c

\* the Leave button of MediaControls (disabled while isExiting)
handleLeaveRoom ==
  /\ ~lv.isExiting
  /\ \E ch1, ch2, u \in BOOLEAN :
       lv' = StartCleanup([lv EXCEPT !.rtcChannel = ch1, !.roomChannel = ch2,
                                     !.hasUser = u], "/leaving")
  /\ UNCHANGED notLeave

\* the Leave button of the home confirmation dialog (disabled while isExiting)
handleConfirmAndGoHome ==
  /\ ~lv.isExiting
  /\ \E ch1, ch2, u \in BOOLEAN :
       lv' = StartCleanup([lv EXCEPT !.rtcChannel = ch1, !.roomChannel = ch2,
                                     !.hasUser = u], "/")
  /\ UNCHANGED notLeave

Due(kind) == lv.timers[kind] # NoTimer /\ lv.timers[kind] <= lv.now

\* time passes; a timer that is due runs before later time is observed
Tick ==
  /\ lv.isExiting
  /\ lv.now < MaxTime
  /\ \A k \in TimerKinds : ~Due(k)
  /\ lv' = [lv EXCEPT !.now = @ + 1]
  /\ UNCHANGED notLeave

\* the 3000 ms timer of the click handler
ForcedTimerFires ==
  /\ Due("forced")
  /\ lv' = navigate([clearTimeout(lv, "forced") EXCEPT !.forced = TRUE], lv.target)
  /\ UNCHANGED notLeave

\* the 2500 ms timer of the first or second Promise.race
RaceTimerFires(kind) ==
  /\ Due(kind)
  /\ LET l == clearTimeout(lv, kind)
     IN lv' = IF kind = "race1" /\ l.handler = "race1" THEN AfterFirstRace(l)
              ELSE IF kind = "race2" /\ l.handler = "race2" THEN EndOfCleanup(l)
              ELSE l
  /\ UNCHANGED notLeave

\* the 2000 ms timer of one of the two settleWithTimeout calls
SettleTimerFires(kind) ==
  /\ Due(kind)
  /\ LET l == clearTimeout(lv, kind)
     IN lv' = IF kind = "settle1" /\ l.roomLeave = "removeChannel"
                THEN RoomLeaveDelete([l EXCEPT !.roomChannel = FALSE])
              ELSE IF kind = "settle2" /\ l.roomLeave = "delete"
                THEN RoomLeaveFinished(l)
              ELSE l
  /\ UNCHANGED notLeave

\* supabase.removeChannel of the signaling channel resolves or rejects
RtcRemoveChannelSettles ==
  /\ lv.rtcLeave = "removeChannel"
  /\ \E ok \in BOOLEAN :
       lv' = RtcLeaveFinished([lv EXCEPT !.rtcChannel = IF ok THEN FALSE ELSE @])
  /\ UNCHANGED notLeave

\* supabase.removeChannel of the room channel resolves or rejects; either way
\* settleWithTimeout returns and channelRef.current is set to null
RoomRemoveChannelSettles ==
  /\ lv.roomLeave = "removeChannel"
  /\ lv' = RoomLeaveDelete([lv EXCEPT !.roomChannel = FALSE])
  /\ UNCHANGED notLeave

\* the delete of the participant row resolves or rejects
DeleteRowSettles ==
  /\ lv.roomLeave = "delete"
  /\ lv' = RoomLeaveFinished(lv)
  /\ UNCHANGED notLeave

\* participants realtime handler, UPDATE of the own row with status denied or
\* removed: ignored while isExiting, else SET_KICKED; the RoomPage effect on
\* isKicked then navigates to /leaving. The handler is attached to the room
\* channel, which delivers until its removal has settled.
OwnRowUpdated(status) ==
  /\ status \in {"denied", "removed"}
  /\ lv.ownUpdate = "none"
  /\ lv.navigations = <<>>
  /\ lv.isExiting => lv.roomChannel /\ lv.roomLeave \in {"idle", "removeChannel"}
  /\ lv' = IF lv.isExiting
             THEN [lv EXCEPT !.ownUpdate = status]
             ELSE navigate([lv EXCEPT !.ownUpdate = status, !.isKicked = TRUE],
                           "/leaving")
  /\ UNCHANGED notLeave

InitLeave ==
  lv = [now |-> 0,
        isExiting |-> FALSE,
        isKicked |-> FALSE,
        ownUpdate |-> "none",
        target |-> "",
        handler |-> "idle",
        forced |-> FALSE,
        rtcLeave |-> "idle",
        roomLeave |-> "idle",
        rtcChannel |-> FALSE,
        roomChannel |-> FALSE,
        hasUser |-> FALSE,
        timers |-> [k \in TimerKinds |-> NoTimer],
        navigations |-> <<>>]

(***************************************************************************)
(* Part V - one WebRTCProvider with several peers                          *)
(*                                                                         *)
(* The client b2 and its per-peer maps for the peers a1 and c3, one with a *)
(* smaller and one with a larger id.  The stream has been acquired or all  *)
(* tiers have failed once isStreamReady is set; the channel is subscribed. *)
(* Awaits of one chain that touch only the chain's own pc are one step.    *)
(*   pcs[k]               the RTCPeerConnection objects ever constructed   *)
(*   peerConnections[p], peerStreams[p], connectionAttempts[p],            *)
(*   pendingIceCandidates[p]   the entries of the four maps for peer p     *)
(*   heldSince[p]         history: the pc that was registered for p when   *)
(*                        the oldest candidate of p's buffer that arrived  *)
(*                        during a session was buffered (NoPc: none)       *)
(*   pcs[k].addedStale    history: pc k was given candidates buffered      *)
(*                        during an earlier session that had been closed   *)
(*   tasks                continuations waiting at an await (a bag)        *)
(*   out[p]               the number of envelopes sent to peer p           *)
(*   event                history: the handler that ran last and its peer  *)
(*   heard, effects, iceEvents   counters of the bounded events            *)
(***************************************************************************)
MeshMe == "b2"
MeshPeers == {"a1", "c3"}
MeshUsers == MeshPeers \cup {MeshMe}

MeshUnits(id) ==
  CASE id = "a1" -> <<97, 49>>
    [] id = "b2" -> <<98, 50>>
    [] OTHER -> <<99, 51>>

\* currentUser.id < peerId
MeshLess(x, y) == StrLess(MeshUnits(x), MeshUnits(y))

\* new RTCPeerConnection(config) inside createPeerConnection(peerId)
NewMeshPc(p) ==
  [signalingState |-> "stable", added |-> 0, peer |-> p,
   remote |-> FALSE, iceConnectionState |-> "new", timer |-> FALSE, addedStale |-> FALSE]

MeshTask(p, kind, step, pc) == [kind |-> kind, step |-> step, pc |-> pc, peer |-> p]

MeshSpawn(m, t) == [m EXCEPT !.tasks = @ (+) SetToBag({t})]
MeshFinish(m, t) == [m EXCEPT !.tasks = @ (-) SetToBag({t})]

MeshEvent(m, kind, p) == [m EXCEPT !.event = [kind |-> kind, peer |-> p]]

\* existingPc.close(); peerConnections.current.delete(peerId)
MeshCloseAndDelete(m, p) ==
  LET k == m.peerConnections[p]
  IN IF k = NoPc THEN m
     ELSE [m EXCEPT !.pcs[k].signalingState = "closed",
                    !.pcs[k].iceConnectionState = "closed",
                    !.peerConnections[p] = NoPc]

\* sendSignal on a subscribed channel
MeshSend(m, p, type) == [m EXCEPT !.out[p] = @ + 1]

\* variant: the reconnection closes every registered session
MeshReconnection_ClosesAll(m, p) ==
  IF m.connectionAttempts[p] >= MaxReconnectAttempts THEN m
  ELSE LET m1 == [m EXCEPT !.connectionAttempts[p] = @ + 1]
           m2 == MeshCloseAndDelete(MeshCloseAndDelete(m1, "a1"), "c3")
       IN IF MeshLess(MeshMe, p)
          THEN MeshSpawn(m2, MeshTask(p, "reconnect", "config", NoPc))
          ELSE m2

\* attemptReconnection(peerId) up to its first await
MeshReconnection(m, p) ==
  IF m.connectionAttempts[p] >= MaxReconnectAttempts THEN m
  ELSE LET m1 == [m EXCEPT !.connectionAttempts[p] = @ + 1]
           m2 == MeshCloseAndDelete(m1, p)
       IN IF MeshLess(MeshMe, p)
          THEN MeshSpawn(m2, MeshTask(p, "reconnect", "config", NoPc))
          ELSE m2

\* handleSignal up to its first await
MeshHandleSignal(m, env) ==
  LET p == env.sender_id
      pc == m.peerConnections[p]
  IN CASE env.signal_type = "offer" ->
            IF pc = NoPc
            THEN MeshSpawn(m, MeshTask(p, "handleOffer", "config", NoPc))
            ELSE IF MeshLess(MeshMe, p) /\ m.pcs[pc].signalingState # "stable"
                 THEN m
                 ELSE MeshSpawn(m, MeshTask(p, "handleOffer", "setRemote", pc))
       [] env.signal_type = "answer" ->
            IF pc # NoPc
            THEN MeshSpawn(m, MeshTask(p, "handleAnswer", "setRemote", pc))
            ELSE m
       [] env.signal_type = "ice-candidate" ->
            IF pc # NoPc /\ m.pcs[pc].remote
            THEN [m EXCEPT !.pcs[pc].added = @ + 1]
            ELSE [m EXCEPT !.pendingIceCandidates[p] = @ + 1,
                           !.heldSince[p] = IF @ = NoPc THEN pc ELSE @]
       [] OTHER ->
            IF pc # NoPc THEN MeshReconnection(m, p) ELSE m

RECURSIVE MeshReplay(_, _)
MeshReplay(m, q) ==
  IF q = <<>> THEN m ELSE MeshReplay(MeshHandleSignal(m, Head(q)), Tail(q))

MeshSignalTypes == {"offer", "answer", "ice-candidate", "connection-failed"}

\* variant: the receiver of an envelope is not looked at
MeshBroadcast_AnyReceiver(env) ==
  /\ mesh' = MeshEvent(
       LET m1 == [mesh EXCEPT !.heard = @ + 1]
       IN IF mesh.isStreamReady THEN MeshHandleSignal(m1, env)
          ELSE [m1 EXCEPT !.signalQueue = Append(@, env)],
       IF env.receiver_id = MeshMe THEN env.signal_type ELSE "overheard", env.sender_id)
  /\ UNCHANGED notMesh

\* handleBroadcast: the channel hands the client an envelope that some peer
\* broadcast, addressed to the client or to another user
MeshBroadcast(env) ==
  /\ mesh' = MeshEvent(
       LET m1 == [mesh EXCEPT !.heard = @ + 1]
       IN IF env.receiver_id = MeshMe
          THEN IF mesh.isStreamReady THEN MeshHandleSignal(m1, env)
               ELSE [m1 EXCEPT !.signalQueue = Append(@, env)]
          ELSE m1,
       IF env.receiver_id = MeshMe THEN env.signal_type ELSE "overheard", env.sender_id)
  /\ UNCHANGED notMesh

\* startMedia reaching isStreamReady: the queued signals are replayed
MeshStreamReady ==
  /\ ~mesh.isStreamReady
  /\ mesh' = MeshEvent(MeshReplay([mesh EXCEPT !.isStreamReady = TRUE,
                                               !.signalQueue = <<>>],
                                  mesh.signalQueue), "ready", MeshMe)
  /\ UNCHANGED notMesh

\* the connect effect for an admitted peer without a registered session
MeshEffectOffer(p) ==
  /\ mesh.isStreamReady
  /\ mesh.peerConnections[p] = NoPc
  /\ MeshLess(MeshMe, p)
  /\ mesh' = MeshEvent(MeshSpawn([mesh EXCEPT !.effects = @ + 1],
                                 MeshTask(p, "effectOffer", "config", NoPc)),
                       "effect", p)
  /\ UNCHANGED notMesh

\* createPeerConnection after await getPeerConnectionConfig(): construct the pc
\* and register it under the peer
MeshPcCreated(t) ==
  /\ t.step = "config"
  /\ LET k == Len(mesh.pcs) + 1
         m1 == [mesh EXCEPT !.pcs = Append(@, NewMeshPc(t.peer)),
                            !.peerConnections[t.peer] = k]
     IN mesh' = MeshEvent(
          MeshSpawn(MeshFinish(m1, t),
                    [t EXCEPT !.pc = k,
                              !.step = IF t.kind = "handleOffer" THEN "setRemote"
                                       ELSE "created"]),
          IF t.kind = "reconnect" THEN "reconnect-created" ELSE "created", t.peer)
  /\ UNCHANGED notMesh

\* createOffer and setLocalDescription resolved; the offer is sent (the effect
\* looks the pc up again and sends only if one is registered)
MeshOffered(t) ==
  /\ t.step = "created"
  /\ LET g == IF t.kind = "reconnect" THEN t.pc ELSE mesh.peerConnections[t.peer]
         m1 == IF g # NoPc /\ mesh.pcs[g].signalingState # "closed"
               THEN MeshSend([mesh EXCEPT !.pcs[g].signalingState = "have-local-offer"],
                             t.peer, "offer")
               ELSE mesh
     IN mesh' = MeshEvent(MeshFinish(m1, t),
                          IF t.kind = "reconnect" THEN "reconnect-offered" ELSE "offered",
                          t.peer)
  /\ UNCHANGED notMesh

\* setRemoteDescription resolved, the buffered candidates of the peer are
\* flushed into the pc, and for an offer the answer is created and sent
MeshRemoteSet(t) ==
  /\ t.step = "setRemote"
  /\ LET live == mesh.pcs[t.pc].signalingState # "closed"
         m1 == IF live
               THEN [mesh EXCEPT !.pcs[t.pc].remote = TRUE,
                                 !.pcs[t.pc].signalingState = "stable",
                                 !.pcs[t.pc].added = @ + mesh.pendingIceCandidates[t.peer],
                                 !.pcs[t.pc].addedStale =
                                     \/ @
                                     \/ /\ mesh.heldSince[t.peer] # NoPc
                                        /\ mesh.heldSince[t.peer] < t.pc
                                        /\ mesh.pcs[mesh.heldSince[t.peer]].signalingState
                                             = "closed",
                                 !.pendingIceCandidates[t.peer] = 0,
                                 !.heldSince[t.peer] = NoPc]
               ELSE mesh
         m2 == IF live /\ t.kind = "handleOffer" THEN MeshSend(m1, t.peer, "answer") ELSE m1
     IN mesh' = MeshEvent(MeshFinish(m2, t), "remote-set", t.peer)
  /\ UNCHANGED notMesh

\* pc.ontrack: the inbound stream of the peer is stored
MeshOnTrack(k) ==
  /\ mesh.pcs[k].signalingState # "closed"
  /\ mesh.pcs[k].remote
  /\ ~mesh.peerStreams[mesh.pcs[k].peer]
  /\ mesh' = MeshEvent([mesh EXCEPT !.peerStreams[mesh.pcs[k].peer] = TRUE],
                       "track", mesh.pcs[k].peer)
  /\ UNCHANGED notMesh

\* pc.oniceconnectionstatechange, connected or completed
MeshIceConnected(k) ==
  /\ mesh.pcs[k].signalingState # "closed"
  /\ mesh.pcs[k].remote
  /\ mesh.pcs[k].iceConnectionState # "connected"
  /\ mesh' = MeshEvent([mesh EXCEPT !.pcs[k].iceConnectionState = "connected",
                                    !.connectionAttempts[mesh.pcs[k].peer] = 0,
                                    !.iceEvents = @ + 1],
                       "connected", mesh.pcs[k].peer)
  /\ UNCHANGED notMesh

\* pc.oniceconnectionstatechange, failed or disconnected: the timer is set
MeshIceFailed(k) ==
  /\ mesh.pcs[k].signalingState # "closed"
  /\ mesh.pcs[k].remote
  /\ mesh.pcs[k].iceConnectionState # "failed"
  /\ mesh' = MeshEvent([mesh EXCEPT !.pcs[k].iceConnectionState = "failed",
                                    !.pcs[k].timer = TRUE,
                                    !.iceEvents = @ + 1],
                       "ice-failed", mesh.pcs[k].peer)
  /\ UNCHANGED notMesh

\* the timer of oniceconnectionstatechange fires after 2000 ms
MeshFailureTimer(k) ==
  /\ mesh.pcs[k].timer
  /\ LET m1 == [mesh EXCEPT !.pcs[k].timer = FALSE]
     IN mesh' = MeshEvent(IF mesh.pcs[k].iceConnectionState = "failed"
                          THEN MeshSend(m1, mesh.pcs[k].peer, "connection-failed")
                          ELSE m1,
                          "failure-timer", mesh.pcs[k].peer)
  /\ UNCHANGED notMesh

\* pc.onconnectionstatechange, failed: the inbound stream of the peer is dropped
MeshConnectionFailed(k) ==
  /\ mesh.pcs[k].iceConnectionState = "failed"
  /\ mesh.peerStreams[mesh.pcs[k].peer]
  /\ mesh' = MeshEvent([mesh EXCEPT !.peerStreams[mesh.pcs[k].peer] = FALSE],
                       "connection-state-failed", mesh.pcs[k].peer)
  /\ UNCHANGED notMesh

InitMesh ==
  mesh = [pcs |-> <<>>,
          peerConnections |-> [p \in MeshPeers |-> NoPc],
          peerStreams |-> [p \in MeshPeers |-> FALSE],
          connectionAttempts |-> [p \in MeshPeers |-> 0],
          pendingIceCandidates |-> [p \in MeshPeers |-> 0],
          heldSince |-> [p \in MeshPeers |-> NoPc],
          isStreamReady |-> FALSE,
          signalQueue |-> <<>>,
          tasks |-> EmptyBag,
          out |-> [p \in MeshPeers |-> 0],
          event |-> [kind |-> "none", peer |-> MeshMe],
          heard |-> 0,
          effects |-> 0,
          iceEvents |-> 0]

(***************************************************************************)
(* Part VI - the participants list of one client                           *)
(*                                                                         *)
(*   participants   state.participants, an array of User objects           *)
(*   action         history: the participant action dispatched last         *)
(*   before         history: the list that action was dispatched on        *)
(*   table[u]       status of u's meetboard_participants row ("none": no   *)
(*                  row)                                                   *)
(*   notes          row changes the realtime feed has not handed over yet  *)
(*   lookups        profile lookups of the realtime handler that are       *)
(*                  pending (a bag)                                        *)
(*   changes        counter of the row changes                             *)
(***************************************************************************)
PIds == {"u1", "u2"}
PNames == {"Ann", "New User"}
PStatuses == {"pending", "admitted"}

\* User objects and the payloads of UPDATE_PARTICIPANT (Partial<User> with id)
PUser == [id : PIds, status : PStatuses, role : {"participant"}, name : PNames]
PPartial == PUser \cup [id : PIds, status : PStatuses] \cup [id : PIds, name : PNames]

\* { ...p, ...payload }
Spread(p, payload) ==
  [f \in DOMAIN p \cup DOMAIN payload |->
     IF f \in DOMAIN payload THEN payload[f] ELSE p[f]]

MapSeq(s, Op(_)) == [i \in 1..Len(s) |-> Op(s[i])]

\* variant: ADD_PARTICIPANT always appends
participantsReducer_AddAppends(participants, act) ==
  CASE act.type = "ADD_PARTICIPANT" -> Append(participants, act.payload)
    [] act.type = "REMOVE_PARTICIPANT" ->
         SelectSeq(participants, LAMBDA p : p.id # act.payload.userId)
    [] act.type = "SET_PARTICIPANTS" -> act.payload
    [] OTHER ->
         MapSeq(participants,
                LAMBDA p : IF p.id = act.payload.id THEN Spread(p, act.payload) ELSE p)

\* roomReducer on state.participants: ADD_PARTICIPANT, REMOVE_PARTICIPANT,
\* SET_PARTICIPANTS and UPDATE_PARTICIPANT
participantsReducer(participants, act) ==
  CASE act.type = "ADD_PARTICIPANT" ->
         IF \E i \in 1..Len(participants) : participants[i].id = act.payload.id
         THEN MapSeq(participants,
                     LAMBDA p : IF p.id = act.payload.id THEN Spread(p, act.payload) ELSE p)
         ELSE Append(participants, act.payload)
    [] act.type = "REMOVE_PARTICIPANT" ->
         SelectSeq(participants, LAMBDA p : p.id # act.payload.userId)
    [] act.type = "SET_PARTICIPANTS" -> act.payload
    [] OTHER ->
         MapSeq(participants,
                LAMBDA p : IF p.id = act.payload.id THEN Spread(p, act.payload) ELSE p)

\* dispatch of a participant action
DispatchParticipant(act) ==
  /\ pl' = [pl EXCEPT !.participants = participantsReducer(@, act), !.action = act,
                      !.before = pl.participants]
  /\ UNCHANGED notPl

\* the arrays SET_PARTICIPANTS is dispatched with: one entry per row of the
\* room (the rows are keyed by user), so no id twice
LoadedLists ==
  {l \in UNION {[1..n -> PUser] : n \in 0..Cardinality(PIds)} :
     \A i, j \in 1..Len(l) : i # j => l[i].id # l[j].id}

DispatchSetParticipants ==
  \E l \in LoadedLists : DispatchParticipant([payload |-> l, type |-> "SET_PARTICIPANTS"])

DispatchAddParticipant ==
  \E u \in PUser : DispatchParticipant([payload |-> u, type |-> "ADD_PARTICIPANT"])

DispatchUpdateParticipant ==
  \E u \in PPartial : DispatchParticipant([payload |-> u, type |-> "UPDATE_PARTICIPANT"])

DispatchRemoveParticipant ==
  \E u \in PIds : DispatchParticipant([payload |-> [userId |-> u],
                                       type |-> "REMOVE_PARTICIPANT"])

\* the backend inserts, updates or deletes the row of user u; the change is
\* put on the realtime feed
RowInserted(u, status) ==
  /\ pl.table[u] = "none"
  /\ pl' = [pl EXCEPT !.table[u] = status, !.changes = @ + 1,
                      !.notes = Append(@, [user_id |-> u, status |-> status,
                                           eventType |-> "INSERT"])]
  /\ UNCHANGED notPl

RowUpdated(u, status) ==
  /\ pl.table[u] \notin {"none", status}
  /\ pl' = [pl EXCEPT !.table[u] = status, !.changes = @ + 1,
                      !.notes = Append(@, [user_id |-> u, status |-> status,
                                           eventType |-> "UPDATE"])]
  /\ UNCHANGED notPl

RowDeleted(u) ==
  /\ pl.table[u] # "none"
  /\ pl' = [pl EXCEPT !.table[u] = "none", !.changes = @ + 1,
                      !.notes = Append(@, [user_id |-> u, status |-> "none",
                                           eventType |-> "DELETE"])]
  /\ UNCHANGED notPl

\* participants realtime handler up to its await: INSERT and UPDATE start the
\* profile lookup, DELETE dispatches REMOVE_PARTICIPANT
ParticipantsHandler ==
  /\ pl.notes # <<>>
  /\ LET note == Head(pl.notes)
         p1 == [pl EXCEPT !.notes = Tail(@)]
     IN pl' = IF note.eventType = "DELETE"
              THEN LET act == [payload |-> [userId |-> note.user_id],
                               type |-> "REMOVE_PARTICIPANT"]
                   IN [p1 EXCEPT !.participants = participantsReducer(@, act),
                                 !.action = act, !.before = pl.participants]
              ELSE [p1 EXCEPT !.lookups = @ (+) SetToBag({[user_id |-> note.user_id,
                                                           status |-> note.status]})]
  /\ UNCHANGED notPl

\* the profile lookup settled, with the profile or without: ADD_PARTICIPANT
ProfileLookupSettled(t) ==
  \E name \in PNames :
     LET act == [payload |-> [id |-> t.user_id, status |-> t.status, role |-> "participant",
                              name |-> name],
                 type |-> "ADD_PARTICIPANT"]
     IN /\ pl' = [pl EXCEPT !.lookups = @ (-) SetToBag({t}),
                            !.participants = participantsReducer(@, act),
                            !.action = act, !.before = pl.participants]
        /\ UNCHANGED notPl

InitPl ==
  pl = [action |-> [type |-> "none"],
        participants |-> <<>>,
        before |-> <<>>,
        table |-> [u \in PIds |-> "none"],
        changes |-> 0,
        notes |-> <<>>,
        lookups |-> EmptyBag]

(***************************************************************************)
(* Part VII - the TurnCredentialManager                                    *)
(*                                                                         *)
(* Time is counted in units of five minutes.                               *)
(*   credentials    the cached credentials (NoCredentials: null), named by *)
(*                  the fetch that returned them                           *)
(*   expiryTime     this.expiryTime                                        *)
(*   refreshPromise this.refreshPromise (NoPromise: null), else the index  *)
(*                  of the fetch promise                                   *)
(*   now            Date.now()                                             *)
(*   promises[i]    the promise of the i-th fetchCredentials call: its     *)
(*                  state and the ttl of the response                      *)
(*   tasks          calls waiting at an await (a bag)                      *)
(*   results        history: what the finished calls returned              *)
(*   calls          counter of the calls                                   *)
(*   last           history: the call made last                            *)
(***************************************************************************)
NoCredentials == 0
NoPromise == 0
\* 5 * 60 * 1000 ms
FiveMinutes == 1
\* data.ttl of the responses
TurnTtls == {1, 3}

InFlight(t) == {i \in 1..Len(t.promises) : t.promises[i].state = "pending"}

\* what a call that waited for promise p hands to its caller: getCredentials
\* the credentials or the rejection, getICEServers the list with the TURN
\* entry or, from its catch block, the STUN-only list
TurnOutcome(call, p, id) ==
  IF p.state = "resolved"
  THEN [returned |-> IF call = "getICEServers" THEN "stun+turn" ELSE "credentials",
        credentials |-> id]
  ELSE [returned |-> IF call = "getICEServers" THEN "stun-only" ELSE "rejected",
        credentials |-> NoCredentials]

TurnResult(task, outcome) ==
  [kind |-> task.kind, outcome |-> outcome, call |-> task.call,
   promise |-> task.promise, inflight |-> task.inflight]

\* getCredentials up to its await, called directly or from getICEServers
getCredentials(call) ==
  LET now == turn.now
      task == [kind |-> "cached", now |-> now, call |-> call, promise |-> NoPromise,
               inflight |-> InFlight(turn)]
      t1 == [turn EXCEPT !.calls = @ + 1]
  IN /\ turn' =
          IF turn.credentials # NoCredentials /\ turn.expiryTime > now + FiveMinutes
          THEN [t1 EXCEPT !.results = @ \cup {TurnResult(task,
                              TurnOutcome(call, [state |-> "resolved"], turn.credentials))},
                          !.last = task]
          ELSE IF turn.refreshPromise # NoPromise
          THEN LET w == [task EXCEPT !.kind = "waiter", !.promise = turn.refreshPromise]
               IN [t1 EXCEPT !.tasks = @ (+) SetToBag({w}), !.last = w]
          ELSE LET s == [task EXCEPT !.kind = "starter",
                                     !.promise = Len(turn.promises) + 1]
               IN [t1 EXCEPT !.promises = Append(@, [state |-> "pending", ttl |-> 0]),
                             !.refreshPromise = Len(turn.promises) + 1,
                             !.tasks = @ (+) SetToBag({s}),
                             !.last = s]
     /\ UNCHANGED notTurn

\* fetchCredentials: the response is ok and parsed
FetchResolved(i, ttl) ==
  /\ turn.promises[i].state = "pending"
  /\ turn' = [turn EXCEPT !.promises[i] = [state |-> "resolved", ttl |-> ttl]]
  /\ UNCHANGED notTurn

\* fetchCredentials: fetch throws or the response is not ok
FetchRejected(i) ==
  /\ turn.promises[i].state = "pending"
  /\ turn' = [turn EXCEPT !.promises[i].state = "rejected"]
  /\ UNCHANGED notTurn

\* variant: refreshPromise is cleared after a successful fetch only
StarterContinues_NoFinally(task) ==
  /\ task.kind = "starter"
  /\ turn.promises[task.promise].state # "pending"
  /\ LET p == turn.promises[task.promise]
         t1 == [turn EXCEPT !.tasks = @ (-) SetToBag({task}),
                            !.results = @ \cup {TurnResult(task,
                                           TurnOutcome(task.call, p, task.promise))}]
     IN turn' = IF p.state = "resolved"
                THEN [t1 EXCEPT !.credentials = task.promise,
                                !.expiryTime = task.now + p.ttl,
                                !.refreshPromise = NoPromise]
                ELSE t1
  /\ UNCHANGED notTurn

\* getCredentials of the call that started the fetch, after its await: the
\* credentials are cached, finally clears refreshPromise
StarterContinues(task) ==
  /\ task.kind = "starter"
  /\ turn.promises[task.promise].state # "pending"
  /\ LET p == turn.promises[task.promise]
         t1 == [turn EXCEPT !.tasks = @ (-) SetToBag({task}),
                            !.refreshPromise = NoPromise,
                            !.results = @ \cup {TurnResult(task,
                                           TurnOutcome(task.call, p, task.promise))}]
     IN turn' = IF p.state = "resolved"
                THEN [t1 EXCEPT !.credentials = task.promise,
                                !.expiryTime = task.now + p.ttl]
                ELSE t1
  /\ UNCHANGED notTurn

\* a call that returned this.refreshPromise: its caller continues when the
\* promise has settled
WaiterContinues(task) ==
  /\ task.kind = "waiter"
  /\ turn.promises[task.promise].state # "pending"
  /\ turn' = [turn EXCEPT !.tasks = @ (-) SetToBag({task}),
                          !.results = @ \cup {TurnResult(task,
                                TurnOutcome(task.call, turn.promises[task.promise],
                                            task.promise))}]
  /\ UNCHANGED notTurn

\* time passes
TurnTick ==
  /\ turn' = [turn EXCEPT !.now = @ + 1]
  /\ UNCHANGED notTurn

InitTurn ==
  turn = [credentials |-> NoCredentials,
          expiryTime |-> 0,
          refreshPromise |-> NoPromise,
          now |-> 0,
          promises |-> <<>>,
          tasks |-> EmptyBag,
          results |-> {},
          calls |-> 0,
          last |-> [kind |-> "none", now |-> 0, call |-> "none", promise |-> NoPromise,
                    inflight |-> {}]]

(***************************************************************************)
(* Specifications                                                          *)
(***************************************************************************)
Init == InitReducer /\ InitStore /\ InitAdmission /\ InitRtc /\ InitLeave /\ InitMesh
        /\ InitPl /\ InitTurn

NextReducer ==
  \/ DispatchAddElement
  \/ DispatchUpdateElement
  \/ DispatchDeleteElement
  \/ DispatchClearCanvas
  \/ DispatchUndo
  \/ DispatchRedo
  \/ DispatchSetInitialElements
  \/ DispatchSetSelectedElement
  \/ DispatchLeaveRoom

SpecReducer == Init /\ [][NextReducer]_vars

NextStore ==
  \/ \E c \in Clients : Subscribe(c)
  \/ \E c \in Clients : LoadRoom(c)
  \/ \E c \in Clients : LocalAddElement(c)
  \/ \E c \in Clients : LocalUpdateElement(c)
  \/ \E c \in Clients : LocalDeleteElement(c)
  \/ \E c \in Clients : LocalClearCanvas(c)
  \/ \E c \in Clients : LocalUndo(c)
  \/ \E c \in Clients : LocalRedo(c)
  \/ \E c \in Clients : Persist(c)
  \/ \E c \in Clients : DeliverEvent(c)
  \/ \E c \in Clients : LeaveStore(c)

SpecStore == Init /\ [][NextStore]_vars

\* the dispatch wrapper with chat messages, actions that are not persisted
\* and inserts that fail
NextDispatch ==
  \/ NextStore
  \/ \E c \in Clients : LocalSendMessage(c)
  \/ \E c \in Clients : LocalSetTool(c)
  \/ \E c \in Clients : InsertFails(c)

SpecDispatch == Init /\ [][NextDispatch]_vars

NextAdmission ==
  \/ \E u \in Users : CheckCapacity(u)
  \/ \E u \in Users : ReadRoom(u)
  \/ \E u \in Users : ReadMyRow(u)
  \/ \E u \in Users : UpsertRoom(u)
  \/ \E u \in Users : UpsertParticipant(u)
  \/ \E u \in Users : FetchParticipants(u)
  \/ \E h \in Users : DeliverParticipantChange(h)
  \/ \E h, p \in Users : AdmitParticipant(h, p)
  \/ \E h, p \in Users : DenyParticipant(h, p)
  \/ \E h, p \in Users : handleRemoveParticipant(h, p)
  \/ \E u \in Users : KickedOut(u)
  \/ \E u \in Users : LeaveRoom(u)

SpecAdmission == Init /\ [][NextAdmission]_vars

\* joining, and the host's admission modal
NextJoin ==
  \/ \E u \in Users : CheckCapacity(u)
  \/ \E u \in Users : ReadRoom(u)
  \/ \E u \in Users : ReadMyRow(u)
  \/ \E u \in Users : UpsertRoom(u)
  \/ \E u \in Users : UpsertParticipant(u)
  \/ \E u \in Users : FetchParticipants(u)
  \/ \E h \in Users : DeliverParticipantChange(h)
  \/ \E h, p \in Users : AdmitParticipant(h, p)
  \/ \E h, p \in Users : DenyParticipant(h, p)

SpecJoin == Init /\ [][NextJoin]_vars

\* users joining a room some of them have been in before
NextRejoin ==
  \/ \E u \in Users : CheckCapacity(u)
  \/ \E u \in Users : ReadRoom(u)
  \/ \E u \in Users : ReadMyRow(u)
  \/ \E u \in Users : UpsertRoom(u)
  \/ \E u \in Users : UpsertParticipant(u)
  \/ \E u \in Users : FetchParticipants(u)
  \/ \E h \in Users : DeliverParticipantChange(h)
  \/ \E h, p \in Users : AdmitParticipant(h, p)
  \/ \E u \in Users : leaves < MaxLeaves /\ TabClosed(u)

SpecRejoin == Init /\ [][NextRejoin]_vars

\* signaling and offer/answer negotiation
NextNegotiation ==
  \/ \E c \in Clients : ChannelSubscribed(c)
  \/ \E c \in Clients : startMedia(c)
  \/ \E c \in Clients : handleBroadcast(c)
  \/ \E c \in Clients, s \in {"admitted", "pending", "none"} : ParticipantsEffect(c, s)
  \/ \E t \in BagToSet(rtc.tasks) : Len(rtc.conns) < MaxPcs /\ createPeerConnection(t)
  \/ \E t \in BagToSet(rtc.tasks) : CreateOfferResolved(t)
  \/ \E t \in BagToSet(rtc.tasks) : SetLocalOfferResolved(t)
  \/ \E t \in BagToSet(rtc.tasks) : SetRemoteResolved(t)
  \/ \E t \in BagToSet(rtc.tasks) : AnswerResolved(t)

\* negotiation, ICE candidates and reconnection between the two clients
NextWebRTC ==
  \/ NextNegotiation
  \/ \E t \in BagToSet(rtc.tasks) : FlushStep(t)
  \/ \E c \in Clients : onicecandidate(c)
  \/ \E c \in Clients : rtc.failures < MaxFailures /\ oniceconnectionstatechange(c)
  \/ \E c \in Clients : ontrack(c)

SpecWebRTC == Init /\ [][NextWebRTC]_vars

\* negotiation with offers that reach a1 from outside
NextGlare ==
  \/ NextNegotiation
  \/ ForeignOffer

SpecGlare == Init /\ [][NextGlare]_vars

\* negotiation between clients whose own admission status changes
NextPairing ==
  \/ NextNegotiation
  \/ \E c \in Clients, s \in {"admitted", "pending"} : OwnStatusEffect(c, s)

SpecPairing == Init /\ [][NextPairing]_vars

\* two clients that list each other as admitted and leave the call
NextTeardown ==
  \/ \E c \in Clients : ChannelSubscribed(c)
  \/ \E c \in Clients : startMedia(c)
  \/ \E c \in Clients : handleBroadcast(c)
  \/ \E c \in Clients : ParticipantsEffect(c, "admitted")
  \/ \E t \in BagToSet(rtc.tasks) : Len(rtc.conns) < MaxPcs /\ createPeerConnection(t)
  \/ \E t \in BagToSet(rtc.tasks) : CreateOfferResolved(t)
  \/ \E t \in BagToSet(rtc.tasks) : SetLocalOfferResolved(t)
  \/ \E t \in BagToSet(rtc.tasks) : SetRemoteResolved(t)
  \/ \E t \in BagToSet(rtc.tasks) : AnswerResolved(t)
  \/ \E c \in Clients : ontrack(c)
  \/ \E c \in Clients : leaveWebRTCRoom(c)
  \/ \E t \in BagToSet(rtc.tasks) : RemoveChannelSettled(t)

SpecTeardown == Init /\ [][NextTeardown]_vars

\* the steps of media acquisition and negotiation the runtime takes by itself
MediaProgress ==
  \/ \E c \in Clients : ChannelSubscribed(c)
  \/ \E c \in Clients : GetUserMediaResolved(c)
  \/ \E c \in Clients : GetUserMediaRejected(c)
  \/ \E c \in Clients : handleBroadcast(c)
  \/ \E c \in Clients : ParticipantsEffect(c, "admitted")
  \/ \E t \in BagToSet(rtc.tasks) : Len(rtc.conns) < MaxPcs /\ createPeerConnection(t)
  \/ \E t \in BagToSet(rtc.tasks) : CreateOfferResolved(t)
  \/ \E t \in BagToSet(rtc.tasks) : SetLocalOfferResolved(t)
  \/ \E t \in BagToSet(rtc.tasks) : SetRemoteResolved(t)
  \/ \E t \in BagToSet(rtc.tasks) : AnswerResolved(t)

\* two clients that list each other as admitted and acquire local media tier
\* by tier; every getUserMedia call settles, every envelope is delivered and
\* every pending promise settles
SpecMedia == Init /\ [][MediaProgress]_vars /\ WF_vars(MediaProgress)

Busy == BagCardinality(rtc.tasks) + Len(rtc.net["a1"]) + Len(rtc.net["b2"])

\* two clients that list each other as admitted and whose connection keeps
\* failing
NextReconnect ==
  \/ \E c \in Clients : ChannelSubscribed(c)
  \/ \E c \in Clients : startMedia(c)
  \/ \E c \in Clients : handleBroadcast(c)
  \/ \E c \in Clients : ParticipantsEffect(c, "admitted")
  \/ \E t \in BagToSet(rtc.tasks) : Len(rtc.conns) < MaxReconnectPcs /\ createPeerConnection(t)
  \/ \E t \in BagToSet(rtc.tasks) : CreateOfferResolved(t)
  \/ \E t \in BagToSet(rtc.tasks) : SetLocalOfferResolved(t)
  \/ \E t \in BagToSet(rtc.tasks) : SetRemoteResolved(t)
  \/ \E t \in BagToSet(rtc.tasks) : AnswerResolved(t)
  \/ \E c \in Clients : /\ rtc.failures < MaxReconnectFailures
                         /\ Busy <= MaxBusy
                         /\ oniceconnectionstatechange(c)
  \/ \E c \in Clients : Len(rtc.resetFrom[c]) < MaxConnects /\ onconnected(c)

SpecReconnect == Init /\ [][NextReconnect]_vars

\* the steps the runtime takes by itself: the subscribe callback, getUserMedia
\* settling, delivery of a broadcast and the continuation of a pending promise
ReconnectProgress ==
  \/ \E c \in Clients : ChannelSubscribed(c)
  \/ \E c \in Clients : startMedia(c)
  \/ \E c \in Clients : handleBroadcast(c)
  \/ \E t \in BagToSet(rtc.tasks) : Len(rtc.conns) < MaxReconnectPcs /\ createPeerConnection(t)
  \/ \E t \in BagToSet(rtc.tasks) : CreateOfferResolved(t)
  \/ \E t \in BagToSet(rtc.tasks) : SetLocalOfferResolved(t)
  \/ \E t \in BagToSet(rtc.tasks) : SetRemoteResolved(t)
  \/ \E t \in BagToSet(rtc.tasks) : AnswerResolved(t)

\* reconnection under fair delivery: every envelope is delivered and every
\* pending promise settles
SpecReconnectFair == SpecReconnect /\ WF_vars(ReconnectProgress)

NextLeave ==
  \/ handleLeaveRoom
  \/ handleConfirmAndGoHome
  \/ Tick
  \/ ForcedTimerFires
  \/ \E k \in {"race1", "race2"} : RaceTimerFires(k)
  \/ \E k \in {"settle1", "settle2"} : SettleTimerFires(k)
  \/ RtcRemoveChannelSettles
  \/ RoomRemoveChannelSettles
  \/ DeleteRowSettles

TimerSteps ==
  \/ Tick
  \/ ForcedTimerFires
  \/ \E k \in {"race1", "race2"} : RaceTimerFires(k)
  \/ \E k \in {"settle1", "settle2"} : SettleTimerFires(k)

\* backend calls may hang forever; the clock and the timers do not
SpecLeave == Init /\ [][NextLeave]_vars /\ WF_vars(TimerSteps)

\* the leave sequence of a client whose own row a host sets to denied or
\* removed; the buttons are on the room page, which a navigation unmounts
NextKick ==
  \/ lv.navigations = <<>> /\ handleLeaveRoom
  \/ lv.navigations = <<>> /\ handleConfirmAndGoHome
  \/ \E status \in {"denied", "removed"} : OwnRowUpdated(status)
  \/ Tick
  \/ ForcedTimerFires
  \/ \E k \in {"race1", "race2"} : RaceTimerFires(k)
  \/ \E k \in {"settle1", "settle2"} : SettleTimerFires(k)
  \/ RtcRemoveChannelSettles
  \/ RoomRemoveChannelSettles
  \/ DeleteRowSettles

SpecKick == Init /\ [][NextKick]_vars /\ WF_vars(TimerSteps)

\* the envelopes the channel can hand to the client
MeshEnvelopes ==
  [signal_type : MeshSignalTypes, sender_id : MeshPeers, receiver_id : MeshUsers]

\* one client, its peers a1 and c3, envelopes addressed to it and to others
NextMesh ==
  \/ \E env \in MeshEnvelopes :
        /\ env.receiver_id # env.sender_id
        /\ mesh.heard < MaxHeard
        /\ Len(mesh.signalQueue) < MaxMeshQueue
        /\ MeshBroadcast(env)
  \/ MeshStreamReady
  \/ \E p \in MeshPeers : mesh.effects < MaxMeshEffects /\ MeshEffectOffer(p)
  \/ \E t \in BagToSet(mesh.tasks) : Len(mesh.pcs) < MaxMeshPcs /\ MeshPcCreated(t)
  \/ \E t \in BagToSet(mesh.tasks) : MeshOffered(t)
  \/ \E t \in BagToSet(mesh.tasks) : MeshRemoteSet(t)
  \/ \E k \in 1..Len(mesh.pcs) : MeshOnTrack(k)
  \/ \E k \in 1..Len(mesh.pcs) : mesh.iceEvents < MaxIceEvents /\ MeshIceConnected(k)
  \/ \E k \in 1..Len(mesh.pcs) : mesh.iceEvents < MaxIceEvents /\ MeshIceFailed(k)
  \/ \E k \in 1..Len(mesh.pcs) : MeshFailureTimer(k)
  \/ \E k \in 1..Len(mesh.pcs) : MeshConnectionFailed(k)

SpecMesh == Init /\ [][NextMesh]_vars

\* any sequence of participant actions on a list loaded from the rows
NextParticipants ==
  \/ DispatchSetParticipants
  \/ Len(pl.participants) < MaxRoster /\ DispatchAddParticipant
  \/ DispatchUpdateParticipant
  \/ DispatchRemoveParticipant

SpecParticipants == Init /\ [][NextParticipants]_vars

\* the participants list of a client fed by the realtime notifications
NextRoster ==
  \/ \E u \in PIds, status \in PStatuses :
        pl.changes < MaxRowChanges /\ RowInserted(u, status)
  \/ \E u \in PIds, status \in PStatuses :
        pl.changes < MaxRowChanges /\ RowUpdated(u, status)
  \/ \E u \in PIds : pl.changes < MaxRowChanges /\ RowDeleted(u)
  \/ ParticipantsHandler
  \/ \E t \in BagToSet(pl.lookups) : ProfileLookupSettled(t)

SpecRoster == Init /\ [][NextRoster]_vars

\* calls of getCredentials and getICEServers at any time, fetches that
\* succeed or fail, and the clock
NextTurn ==
  \/ \E call \in {"getCredentials", "getICEServers"} :
        turn.calls < MaxTurnCalls /\ getCredentials(call)
  \/ \E i \in 1..Len(turn.promises), ttl \in TurnTtls : FetchResolved(i, ttl)
  \/ \E i \in 1..Len(turn.promises) : FetchRejected(i)
  \/ \E task \in BagToSet(turn.tasks) : StarterContinues(task)
  \/ \E task \in BagToSet(turn.tasks) : WaiterContinues(task)
  \/ turn.now < MaxNow /\ TurnTick

SpecTurn == Init /\ [][NextTurn]_vars

(***************************************************************************)
(* Claims on the reducer (SpecReducer)                                     *)
(***************************************************************************)

\* C5: for every start array and every sequence of ADD_ELEMENT, UPDATE_ELEMENT,
\* DELETE_ELEMENT and CLEAR_CANVAS, the elements produced by roomReducer equal
\* the fold of applyEventToState over the corresponding events.
C5_ReducerEqualsFold == pureSeq => st.elements = folded

\* an update that changed an element, in a run of the four kinds only
C5_Witness ==
  /\ pureSeq
  /\ lastType = "UPDATE_ELEMENT"
  /\ st.elements # prev.elements
  /\ Len(st.history) = MaxHistory

\* C8: after any sequence of reducer actions from the initial state,
\* 0 <= historyIndex < history.length.
C8_HistoryIndexInRange ==
  /\ 0 <= st.historyIndex
  /\ st.historyIndex < Len(st.history)

\* the index has moved off both ends of a full history
C8_Witness ==
  /\ Len(st.history) = MaxHistory
  /\ st.historyIndex = 1
  /\ lastType = "UNDO"

\* C9: UNDO at index 0 and REDO at the last index return the state unchanged;
\* otherwise they move the index by one and set elements to that snapshot;
\* UNDO, REDO, UNDO from a state with historyIndex > 0 ends on the snapshot
\* just before the starting one, with history unchanged.
C9_UndoRedo ==
  /\ (lastType = "UNDO" /\ prev.historyIndex = 0) => st = prev
  /\ (lastType = "REDO" /\ prev.historyIndex = Len(prev.history) - 1) => st = prev
  /\ (lastType = "UNDO" /\ prev.historyIndex > 0) =>
        /\ st.historyIndex = prev.historyIndex - 1
        /\ st.elements = prev.history[prev.historyIndex]
        /\ st.history = prev.history
  /\ (lastType = "REDO" /\ prev.historyIndex < Len(prev.history) - 1) =>
        /\ st.historyIndex = prev.historyIndex + 1
        /\ st.elements = prev.history[prev.historyIndex + 2]
        /\ st.history = prev.history
  /\ progress = 3 =>
        /\ st.elements = mark.history[mark.historyIndex]
        /\ st.history = mark.history
        /\ st.historyIndex = mark.historyIndex - 1

\* UNDO, REDO, UNDO has run from a state whose previous snapshot differs
C9_Witness ==
  /\ progress = 3
  /\ mark.historyIndex > 0
  /\ st.elements # mark.elements

\* C10: a mutating action at historyIndex = i gives a history of length i + 2
\* that keeps the first i + 1 snapshots and ends with the new elements, with
\* historyIndex = i + 1; a following REDO is a no-op.
C10_HistoryTruncation ==
  lastType \in MutatingTypes =>
    LET i == prev.historyIndex
    IN /\ Len(st.history) = i + 2
       /\ SubSeq(st.history, 1, i + 1) = SubSeq(prev.history, 1, i + 1)
       /\ st.history[i + 2] = st.elements
       /\ st.historyIndex = i + 1
       /\ roomReducer(st, [payload |-> NoPayload, type |-> "REDO"]) = st

\* a mutating action was dispatched after an UNDO: a redo branch was cut off
C10_Witness ==
  /\ lastType \in MutatingTypes
  /\ prev.historyIndex < Len(prev.history) - 1

(***************************************************************************)
(* Claims on the replicated store (SpecStore)                              *)
(***************************************************************************)

\* l was subscribed and loaded while the table was empty, dispatched nothing
\* itself and has been handed every row of the table
SubscribedThroughout(l) ==
  /\ phase[l] = "loaded"
  /\ throughout[l]
  /\ cursor[l] = Len(log)

\* j has just loaded the room by replaying the whole table
JustReplayed(j) ==
  /\ phase[j] = "loaded"
  /\ fresh[j]

\* C4: a late joiner that folds applyEventToState over the full event log
\* (all six kinds) has the same elements array as a participant that was
\* subscribed throughout and applied each of those events as delivered.
C4_LateJoinerEqualsLive ==
  \A l, j \in Clients :
     (l # j /\ SubscribedThroughout(l) /\ JustReplayed(j) /\ Len(log) > 0)
        => room[j].elements = room[l].elements

(***************************************************************************)
(* Claims on admission control (SpecAdmission)                             *)
(***************************************************************************)

\* C6: in every reachable state of a room at most 5 participant records have
\* status admitted.
C6_AtMostFiveAdmitted == AdmittedCount(rows) <= MAX_PARTICIPANTS

\* C7: once a participant's status is denied or removed, the user's status in
\* that room is never pending or admitted again.
C7_KickedIsTerminal ==
  \A u \in Users : wasKicked[u] => rows[u].status \notin {"pending", "admitted"}

\* the rows of user u in the table, in created_at order
RowsOf(u) == SelectSeq(log, LAMBDA ev : ev.user_id = u)

\* s can be obtained from t by leaving rows out, without reordering
RECURSIVE InOrderOf(_, _)
InOrderOf(s, t) ==
  IF s = <<>> THEN TRUE
  ELSE IF t = <<>> THEN FALSE
  ELSE IF Head(s) = Head(t) THEN InOrderOf(Tail(s), Tail(t))
  ELSE InOrderOf(s, Tail(t))

\* C29: the event rows of one client stand in the table, in the created_at
\* order a later joiner reads, in the order the client dispatched them.
C29_PersistedInDispatchOrder ==
  \A c \in Clients : InOrderOf(RowsOf(c), dispatched[c])

(***************************************************************************)
(* Claims on the dispatch wrapper (SpecDispatch)                           *)
(***************************************************************************)
PersistedTypes ==
  {"ADD_ELEMENT", "UPDATE_ELEMENT", "DELETE_ELEMENT", "CLEAR_CANVAS", "UNDO", "REDO",
   "SEND_MESSAGE"}

\* the actions whose insert is the row ev
ActionsOf(ev) ==
  IF ev.event_type = "SEND_MESSAGE"
  THEN {[payload |-> [id |-> i, content |-> ev.data.content, userId |-> ev.user_id],
         type |-> "SEND_MESSAGE"] :
          i \in 1..MaxLog}
  ELSE {[payload |-> ev.data, type |-> ev.event_type]}

\* C21: the step that issues an insert has applied the reducer to the action
\* the row comes from; inserts are issued only for ADD_ELEMENT, UPDATE_ELEMENT,
\* DELETE_ELEMENT, CLEAR_CANVAS, UNDO, REDO and SEND_MESSAGE; a failed insert
\* changes no client state (no rollback) and issues no further insert (no
\* retry).
C21_ReducerThenInsert ==
  [][/\ \A c \in Clients :
          Len(outbox'[c]) > Len(outbox[c])
          => /\ outbox'[c] = Append(outbox[c], outbox'[c][Len(outbox'[c])])
             /\ outbox'[c][Len(outbox'[c])].event_type \in PersistedTypes
             /\ \E a \in ActionsOf(outbox'[c][Len(outbox'[c])]) :
                   room'[c] = roomReducer(room[c], a)
     /\ (\A c \in Clients : outbox'[c] = outbox[c]) /\ log' = log /\ msgs' = msgs
          => \A c \in Clients :
               room'[c] # room[c]
               => \/ room'[c].activeTool # room[c].activeTool
                  \/ phase'[c] # phase[c]
                  \/ cursor'[c] # cursor[c]
     /\ failed' > failed
          => /\ room' = room
             /\ log' = log /\ msgs' = msgs
             /\ Issued' = Issued
             /\ \A c \in Clients : Len(outbox'[c]) <= Len(outbox[c])]_vars

\* the insert of an added element has failed and nothing else is in flight or
\* stored: the client still shows the element
C21_Witness ==
  /\ failed = 1
  /\ log = <<>>
  /\ \A c \in Clients : outbox[c] = <<>>
  /\ \E c \in Clients : Len(room[c].elements) = 1 /\ room[c].activeTool = "pen"

(***************************************************************************)
(* Claims on joining and admission (SpecJoin)                              *)
(***************************************************************************)
\* number of admitted participants in host h's participants list
ViewCount(h) == Cardinality({v \in Users : view[h][v] = "admitted"})

\* C16: a host's Admit click while its list shows 5 admitted issues no update
\* (no row changes, nothing is notified), so a row only goes from pending to
\* admitted through a host whose list shows fewer than 5 admitted; a Deny
\* click in the same situation does set the row to denied.
C16_NoAdmitWhenFull ==
  [][/\ "admit" \in fullActs' \ fullActs => rows' = rows /\ feed' = feed
     /\ \A p \in Users :
          rows[p].status = "pending" /\ rows'[p].status = "admitted"
          => \E h \in Users : /\ HostIn(h)
                              /\ view[h][p] = "pending"
                              /\ ViewCount(h) < MAX_PARTICIPANTS
     /\ "deny" \in fullActs' \ fullActs
          => \E p \in Users : rows[p].status = "pending" /\ rows'[p].status = "denied"]_vars

\* a host whose list shows 5 admitted has clicked Admit, the row stayed
\* pending, and then Deny, which set it to denied
C16_Witness ==
  /\ fullActs = {"admit", "deny"}
  /\ \E p \in Users : rows[p].status = "denied"
  /\ AdmittedCount(rows) = MAX_PARTICIPANTS

\* the capacity check of user u finds the room full
RoomFullFor(u) ==
  /\ apc[u] = "idle"
  /\ AdmittedCount(rows) >= MAX_PARTICIPANTS
  /\ rows[u].status # "admitted"

C18_AtMostOneHost ==
  /\ Cardinality({u \in Users : rows[u].role = "host"}) <= 1
  /\ Cardinality({u \in Users : isHostL[u]}) <= 1

(***************************************************************************)
(* Claims on peer-session orchestration (SpecWebRTC)                       *)
(***************************************************************************)
\* C1: every peer connection that was created for the peer and is not closed is
\* the one registered in its owner's peerConnections map
C1_OneLiveConnectionPerPeer ==
  \A k \in 1..Len(rtc.conns) :
    Live(rtc, k) => rtc.peerConnections[rtc.conns[k].owner] = k

\* candidate k still waits in a buffer: in the array registered for its sender, or
\* at a position a running flush has not passed yet
Waiting(k) ==
  \/ \E c \in Clients :
        /\ rtc.pendingIceCandidates[c] # NoArr
        /\ \E i \in 1..Len(rtc.arrays[rtc.pendingIceCandidates[c]]) :
              rtc.arrays[rtc.pendingIceCandidates[c]][i] = k
  \/ \E t \in BagToSet(rtc.tasks) :
        /\ t.step = "flush"
        /\ \E i \in t.idx..Len(rtc.arrays[t.arr]) : rtc.arrays[t.arr][i] = k

\* the connections candidate k was added to all had their remote description set
AddedAfterRemoteDescription(k) ==
  \A p \in 1..Len(rtc.conns) :
    (\E i \in 1..Len(rtc.conns[p].added) : rtc.conns[p].added[i] = k)
       => rtc.conns[p].remoteDescription.type # "none"

\* C2: an ice-candidate that arrived before the session or its remote description
\* existed was buffered; it is added only to a connection whose remote description is
\* set, it is never dropped (it waits in a buffer until it is added, or the connection
\* it was flushed to had been closed) and it is added at most once
C2_BufferedCandidates ==
  \A k \in 1..MaxCands :
    rtc.buffered[k] =>
      /\ AddedAfterRemoteDescription(k)
      /\ rtc.addCount[k] >= 1 \/ Waiting(k) \/ rtc.rejected[k]
      /\ rtc.addCount[k] <= 1

\* the offer branch's glare rule is never exercised between clients of this code:
\* an offer is only created where currentUser.id < peerId, so no offer reaches a1
\* and no connection of b2 is ever in have-local-offer
LargerIdNeverOffers ==
  /\ \A h \in rtc.offersSeen : h.c # "a1"
  /\ \A i \in 1..Len(rtc.net["a1"]) : rtc.net["a1"][i].signal_type # "offer"
  /\ \A k \in 1..Len(rtc.conns) :
        rtc.conns[k].owner = "b2" => rtc.conns[k].signalingState # "have-local-offer"

\* C22: an envelope that arrives before media acquisition has finished is
\* queued and none is handled; when acquisition finishes, with a stream or
\* with all tiers failed, the queue is replayed and emptied, so that the
\* envelopes handled are the envelopes that arrived, once each and in arrival
\* order.
C22_QueuedUntilStreamReady ==
  \A c \in Clients :
     IF ~rtc.isStreamReady[c]
     THEN rtc.handled[c] = <<>> /\ rtc.signalQueue[c] = rtc.heard[c]
     ELSE rtc.signalQueue[c] = <<>> /\ rtc.handled[c] = rtc.heard[c]

\* two envelopes were queued and replayed, and one that arrived later has
\* been handled after them
C22_Witness ==
  \E c \in Clients :
     /\ rtc.isStreamReady[c]
     /\ rtc.replayedSome[c]
     /\ Len(rtc.handled[c]) >= 3
     /\ rtc.handled[c][3].signal_type = "connection-failed"

\* C23: a signal produced while the signaling channel is not subscribed is
\* queued, neither sent nor dropped; when the channel reports SUBSCRIBED the
\* queue is sent and emptied, so that the signals sent are the signals
\* produced, once each and in the order they were produced.
C23_OutgoingQueuedUntilSubscribed ==
  \A c \in Clients :
     IF ~rtc.isChannelReady[c]
     THEN rtc.sent[c] = <<>> /\ rtc.outgoingSignalQueue[c] = rtc.produced[c]
     ELSE rtc.outgoingSignalQueue[c] = <<>> /\ rtc.sent[c] = rtc.produced[c]

\* two queued signals were sent when the channel was subscribed, and a third
\* one that was produced afterwards has been sent after them
C23_Witness ==
  \E c \in Clients :
     /\ rtc.isChannelReady[c]
     /\ rtc.flushed[c]
     /\ Len(rtc.sent[c]) >= 3

\* the handleSignal runs of client c that are suspended at an await
HandlerRuns(w, c) ==
  {t \in BagToSet(w.tasks) :
     t.c = c /\ t.kind \in {"handleOffer", "handleAnswer", "reconnect"}}

\* C24: handleSignal is not called for the next envelope of the peer while a
\* handleSignal run for an earlier envelope of that peer is suspended at an
\* await.
C24_NoInterleavedHandling ==
  [][\A c \in Clients :
       Len(rtc'.handled[c]) > Len(rtc.handled[c]) => HandlerRuns(rtc, c) = {}]_vars

\* the flushPendingIceCandidates runs of client c that are suspended in the loop
FlushRuns(w, c) ==
  BagCardinality([t \in {u \in BagToSet(w.tasks) : u.c = c /\ u.step = "flush"}
                    |-> CopiesIn(t, w.tasks)])

\* C25: the buffered candidates of a peer are added by a single flush, in the
\* order they arrived and once each: no two flushes of a client run at the
\* same time, and what a connection has been given is in arrival order
\* without repetition.
C25_SingleFifoFlush ==
  /\ \A c \in Clients : FlushRuns(rtc, c) <= 1
  /\ \A k \in 1..Len(rtc.conns) :
       \A i, j \in 1..Len(rtc.conns[k].added) :
          i < j => rtc.conns[k].added[i] < rtc.conns[k].added[j]

\* C12: when client c's participants list stops showing a peer as admitted
\* (entry gone, or status no longer admitted) while c holds a session for it,
\* processing that change closes the session, removes it from the session map
\* and removes the peer's inbound stream, with or without local media.
C12_ClosedWhenNoLongerAdmitted ==
  [][\A c \in Clients :
       (/\ rtc.peerStatus[c] = "admitted"
        /\ rtc'.peerStatus[c] # "admitted"
        /\ rtc.peerConnections[c] # NoPc)
       => /\ rtc'.peerConnections[c] = NoPc
          /\ ~Live(rtc', rtc.peerConnections[c])
          /\ ~rtc'.peerStreams[c]]_vars

\* participant ids of up to MaxIdLen code units over a small alphabet
IdAlphabet == {49, 50, 97}
SampleIds == UNION {[1..n -> IdAlphabet] : n \in 1..MaxIdLen}

\* of two distinct ids exactly one is smaller than the other
ExactlyOneIsSmaller ==
  \A x, y \in SampleIds : x # y => (StrLess(x, y) <=> ~StrLess(y, x))

\* there is an offer of client c somewhere: a chain of c that creates one, a
\* local offer on a connection of c, an offer envelope of c queued or in
\* flight, or an offer handed to the peer's handleSignal
HasOffered(c) ==
  \/ \E t \in BagToSet(rtc.tasks) : t.c = c /\ t.kind \in {"effectOffer", "reconnect"}
  \/ \E k \in 1..Len(rtc.conns) :
       rtc.conns[k].owner = c /\ rtc.conns[k].localDescription.type = "offer"
  \/ \E q \in {rtc.outgoingSignalQueue[c], rtc.net[Other(c)], rtc.signalQueue[Other(c)]} :
       \E i \in 1..Len(q) : q[i].signal_type = "offer"
  \/ \E h \in rtc.offersSeen : h.c = Other(c)

\* C14: of two distinct participant ids exactly one is smaller under the id
\* order; the participants effect, the glare rule of handleSignal and
\* attemptReconnection all take the side with own id < peer id as initiator;
\* the larger-id side never creates an offer, neither for a newly admitted
\* peer nor on reconnection.
C14_SingleInitiatorOrder ==
  /\ ExactlyOneIsSmaller
  /\ \A c \in Clients : amInitiator(c, Other(c)) <=> IdLess(c, Other(c))
  /\ \A c \in Clients : IdLess(c, Other(c)) <=> ~IdLess(Other(c), c)
  /\ \A c \in Clients : ~IdLess(c, Other(c)) => ~HasOffered(c)

\* both sides list each other as admitted, the smaller id has offered, the
\* larger id has taken the offer, and the larger id has gone through
\* attemptReconnection, closing its session without offering
C14_Witness ==
  /\ \A c \in Clients : rtc.peerStatus[c] = "admitted"
  /\ HasOffered("a1")
  /\ \E h \in rtc.offersSeen : h.c = "b2"
  /\ rtc.connectionAttempts["b2"] = 1
  /\ rtc.peerConnections["b2"] = NoPc

(***************************************************************************)
(* Claims on who is paired (SpecPairing)                                   *)
(***************************************************************************)
\* this step is a run of an effect or handler of client c that starts a chain
\* of the given kind (effectOffer and reconnect create a connection and send
\* an offer, handleOffer creates or reuses a session and sends an answer)
Starts(c, kind) ==
  /\ rtc.tasks \sqsubseteq rtc'.tasks
  /\ \E t \in BagToSet(rtc'.tasks) :
       /\ t.c = c
       /\ t.kind = kind
       /\ CopiesIn(t, rtc'.tasks) > CopiesIn(t, rtc.tasks)

\* C13: a client whose own participant status is not admitted (pending, denied,
\* removed) never sets out to create a connection and send an offer, and an
\* inbound offer from a sender that the client's participants list does not
\* show as admitted never leads it to create a session or send an answer.
C13_OnlyBetweenAdmitted ==
  [][\A c \in Clients :
       /\ Starts(c, "effectOffer") \/ Starts(c, "reconnect")
            => rtc'.ownStatus[c] # "pending"
       /\ Starts(c, "handleOffer") => rtc'.peerStatus[c] = "admitted"]_vars

(***************************************************************************)
(* Claims on reconnection (SpecReconnect)                                  *)
(***************************************************************************)
\* this step is client c's handleSignal taking a connection-failed envelope
HandlesConnectionFailed(c) ==
  /\ rtc.isStreamReady[c]
  /\ rtc.net[c] # <<>>
  /\ Head(rtc.net[c]).signal_type = "connection-failed"
  /\ rtc'.net[c] = Tail(rtc.net[c])

\* C15: a client makes at most 3 reconnection attempts for a peer since the
\* last connected event of that peer, and its counter never exceeds 3; when
\* the counter is 3, handling a further connection-failed signal closes no
\* connection, creates none, sends nothing and leaves the session as it is.
C15_ReconnectionCap ==
  /\ [](\A c \in Clients : /\ rtc.reconnects[c] <= MaxReconnectAttempts
                           /\ rtc.connectionAttempts[c] <= MaxReconnectAttempts)
  /\ [][\A c \in Clients :
          HandlesConnectionFailed(c) /\ rtc.connectionAttempts[c] = MaxReconnectAttempts
          => /\ rtc'.conns = rtc.conns
             /\ rtc'.peerConnections = rtc.peerConnections
             /\ rtc'.tasks = rtc.tasks
             /\ rtc'.net[Other(c)] = rtc.net[Other(c)]
             /\ rtc'.outgoingSignalQueue = rtc.outgoingSignalQueue
             /\ rtc'.connectionAttempts = rtc.connectionAttempts]_vars

\* a1 has made three attempts and then ran attemptReconnection once more while
\* it held a live session for b2, which is still registered
C15_Witness ==
  /\ rtc.reconnects["a1"] = MaxReconnectAttempts
  /\ rtc.capped["a1"]
  /\ rtc.peerConnections["a1"] # NoPc
  /\ Live(rtc, rtc.peerConnections["a1"])

\* this step is the debounce timer of a pc of client c finding the ICE state
\* still failed or disconnected
DetectsIceFailure(c) ==
  /\ rtc'.failures = rtc.failures + 1
  /\ Len(rtc'.produced[c]) = Len(rtc.produced[c]) + 1

\* this step closes and discards the session client c held for its peer, counts
\* an attempt, and sets out to create a session and offer exactly if c has the
\* smaller id
ReconnectionStep(c) ==
  /\ rtc'.connectionAttempts[c] = rtc.connectionAttempts[c] + 1
  /\ rtc'.peerConnections[c] = NoPc
  /\ ~Live(rtc', rtc.peerConnections[c])
  /\ IdLess(c, Other(c)) <=> Starts(c, "reconnect")

\* C26: a client that holds a session for its peer and has made fewer than 3
\* attempts runs the reconnection step (counter + 1, old session closed and
\* discarded, and a new session with a new offer exactly if its own id is the
\* smaller one) both when it handles a connection-failed envelope of the peer
\* and when it detects the ICE failure itself after the debounce delay.
C26_ReconnectionStepOnFailure ==
  [][\A c \in Clients :
       /\ HandlesConnectionFailed(c) \/ DetectsIceFailure(c)
       /\ rtc.peerConnections[c] # NoPc
       /\ rtc.connectionAttempts[c] < MaxReconnectAttempts
       => ReconnectionStep(c)]_vars

\* the receiving half of C26 alone
C26_ReconnectionStepOnEnvelope ==
  [][\A c \in Clients :
       /\ HandlesConnectionFailed(c)
       /\ rtc.peerConnections[c] # NoPc
       /\ rtc.connectionAttempts[c] < MaxReconnectAttempts
       => ReconnectionStep(c)]_vars

\* the offers client c has sent
OffersSent(c) ==
  Cardinality({i \in 1..Len(rtc.sent[c]) : rtc.sent[c][i].signal_type = "offer"})

\* a connection-failed envelope is on its way to a client, both clients have
\* made fewer than 3 attempts, and a1 (the smaller id) has sent n offers
FailureReported(n) ==
  /\ \E c \in Clients : \E i \in 1..Len(rtc.net[c]) :
        rtc.net[c][i].signal_type = "connection-failed"
  /\ \A c \in Clients : rtc.connectionAttempts[c] < MaxReconnectAttempts
  /\ Len(rtc.conns) + 2 <= MaxReconnectPcs
  /\ OffersSent("a1") = n

\* b2 (the larger id) has handled the report of the failure of the session a1
\* still holds and holds none itself, and nothing is pending or in flight
Stranded ==
  /\ rtc.peerConnections["b2"] = NoPc
  /\ rtc.peerConnections["a1"] # NoPc
  /\ \E i \in 1..Len(rtc.handled["b2"]) :
        rtc.handled["b2"][i] =
           Envelope("connection-failed", rtc.peerConnections["a1"], NoCand)
  /\ rtc.tasks = EmptyBag
  /\ \A c \in Clients : rtc.net[c] = <<>> /\ rtc.outgoingSignalQueue[c] = <<>>
                                         /\ rtc.signalQueue[c] = <<>>

\* C27: under fair delivery and with fewer than 3 attempts made, a reported
\* failure of the connection between the two admitted clients leads to a new
\* offer of the smaller-id client a1, and the pair does not come to rest with
\* b2 having discarded its session while a1 keeps the failed one.
C27_FailureLeadsToReoffer ==
  /\ \A n \in 0..MaxReconnectPcs : FailureReported(n) ~> OffersSent("a1") > n
  /\ []<>(~Stranded)

\* C28: when a connection of a client reports connected (ICE connected or
\* completed, or connection state connected) the client's attempt counter for
\* the peer becomes 0, and the counter always equals the number of attempts
\* made since the last such event, so 3 attempts are available again.
C28_ConnectedResetsAttempts ==
  /\ [][\A c \in Clients :
          Len(rtc'.resetFrom[c]) > Len(rtc.resetFrom[c])
          => rtc'.connectionAttempts[c] = 0]_vars
  /\ [](\A c \in Clients : rtc.connectionAttempts[c] = rtc.reconnects[c])

\* a1 had made two attempts when its connection reported connected, and has
\* made two more since
C28_Witness ==
  /\ rtc.resetFrom["a1"] = <<2>>
  /\ rtc.connectionAttempts["a1"] = 2

(***************************************************************************)
(* Claims on media acquisition (SpecMedia)                                 *)
(***************************************************************************)
Tiers == <<"high", "medium", "low", "audio-only">>

\* every getUserMedia attempt of client c has failed
AllTiersFailed(c) == Len(rtc.tried[c]) = MediaAttempts /\ ~rtc.localStream[c]

\* client c holds a session for its peer with both descriptions set
HasSession(c) ==
  /\ rtc.peerConnections[c] # NoPc
  /\ rtc.conns[rtc.peerConnections[c]].localDescription.type # "none"
  /\ rtc.conns[rtc.peerConnections[c]].remoteDescription.type # "none"

\* the tiers are tried in the fixed order, at most 4 of them, none after the
\* first success, and a client whose 4 attempts failed is ready for signaling
\* with its queue replayed
C31_TiersThenReady ==
  /\ [](\A c \in Clients :
          /\ Len(rtc.tried[c]) <= MediaAttempts
          /\ rtc.tried[c] = SubSeq(Tiers, 1, Len(rtc.tried[c]))
          /\ AllTiersFailed(c) => /\ rtc.isStreamReady[c]
                                  /\ rtc.signalQueue[c] = <<>>
                                  /\ rtc.handled[c] = rtc.heard[c])
  /\ [][\A c \in Clients : rtc.localStream[c] => rtc'.tried[c] = rtc.tried[c]]_vars

\* C31: local media acquisition tries high, medium, low, audio-only in this
\* order, stops at the first success and makes at most 4 attempts; a client
\* whose 4 attempts all failed is ready for signaling with its queued signals
\* replayed, and (both clients being subscribed before any offer is sent)
\* comes to hold a session with its admitted peer.
C31_MediaFallback ==
  /\ C31_TiersThenReady
  /\ \A c \in Clients :
        (/\ AllTiersFailed(c)
         /\ \A d \in Clients : rtc.isChannelReady[d] /\ rtc.produced[d] = <<>>)
        ~> HasSession(c)

(***************************************************************************)
(* Claims on a client with several peers (SpecMesh)                        *)
(***************************************************************************)
\* the handlers that make up a failure or a reconnection of the session with a
\* peer: ICE failed, its timer, connection state failed, a connection-failed
\* envelope of the peer, and the two continuations of attemptReconnection
FailureEvents ==
  {"ice-failed", "failure-timer", "connection-state-failed", "connection-failed",
   "reconnect-created", "reconnect-offered"}

\* the connection objects made for peer q, with their positions
PcsOf(m, q) == {<<k, m.pcs[k]>> : k \in {i \in 1..Len(m.pcs) : m.pcs[i].peer = q}}

\* C32: a failure or reconnection of the session with peer P leaves the
\* session (map entry and connection objects), the inbound stream and the
\* attempt counter of every other peer Q unchanged.
C32_FailureTouchesOnePeer ==
  [][\A P, Q \in MeshPeers :
       /\ mesh' # mesh
       /\ mesh'.event.kind \in FailureEvents
       /\ mesh'.event.peer = P
       /\ Q # P
       => /\ mesh'.peerConnections[Q] = mesh.peerConnections[Q]
          /\ PcsOf(mesh', Q) = PcsOf(mesh, Q)
          /\ mesh'.peerStreams[Q] = mesh.peerStreams[Q]
          /\ mesh'.connectionAttempts[Q] = mesh.connectionAttempts[Q]]_vars

\* the client has just run attemptReconnection for c3, closing that session,
\* while it holds a live session with a1 whose stream it shows
C32_Witness ==
  /\ mesh.event = [kind |-> "connection-failed", peer |-> "c3"]
  /\ mesh.connectionAttempts["c3"] = 1
  /\ mesh.peerConnections["c3"] = NoPc
  /\ \E k \in 1..Len(mesh.pcs) : mesh.pcs[k].peer = "c3" /\ mesh.pcs[k].signalingState = "closed"
  /\ mesh.peerConnections["a1"] # NoPc
  /\ mesh.pcs[mesh.peerConnections["a1"]].remote
  /\ mesh.peerStreams["a1"]

\* C33: an envelope whose receiver_id is not the local user's id changes
\* nothing: no session is created, closed or modified, no continuation is
\* started, nothing is queued or buffered and no envelope is sent.
C33_ForeignEnvelopeIgnored ==
  [][mesh'.event.kind = "overheard" /\ mesh'.heard # mesh.heard
       => [mesh' EXCEPT !.heard = mesh.heard, !.event = mesh.event] = mesh]_vars

\* the client, stream ready and holding a session with the sender, has just
\* been handed an envelope of that sender addressed to another user
C33_Witness ==
  /\ mesh.event.kind = "overheard"
  /\ mesh.isStreamReady
  /\ mesh.peerConnections[mesh.event.peer] # NoPc
  /\ mesh.pcs[mesh.peerConnections[mesh.event.peer]].remote

(***************************************************************************)
(* Claims on glare resolution (SpecGlare)                                  *)
(***************************************************************************)
\* pc k of a1 is a connection negotiated from a1's offer: its local description is
\* its offer and its remote description the answer of a pc of b2 that took an
\* offer of a1 as remote description
NegotiatedFromOwnOffer(k) ==
  LET rd == rtc.conns[k].remoteDescription
  IN /\ rtc.conns[k].localDescription.type = "offer"
     /\ rd.type = "answer"
     /\ rd.of \in 1..Len(rtc.conns)
     /\ rtc.conns[rd.of].owner = "b2"
     /\ rtc.conns[rd.of].remoteDescription.type = "offer"
     /\ rtc.conns[rd.of].remoteDescription.of \in 1..Len(rtc.conns)
     /\ rtc.conns[rtc.conns[rd.of].remoteDescription.of].owner = "a1"

C30_RoleAndStatusOnJoin ==
  [][\A u \in Users :
       /\ apc[u] = "checked" /\ apc'[u] = "gotRoom"
            => (isHostL'[u] <=> (hostId = NoUser \/ hostId = u))
       /\ apc[u] = "gotRoom" /\ apc'[u] = "gotRow"
            => planStatus'[u] =
                 CASE rows[u].status \in {"pending", "admitted"} -> rows[u].status
                   [] rows[u].status = "none" /\ isHostL[u] -> "admitted"
                   [] rows[u].status = "none" /\ ~isHostL[u] -> "pending"
       /\ apc[u] # "upserted" /\ apc'[u] = "upserted"
            => /\ rows'[u].status = planStatus[u]
               /\ rows'[u].role = IF isHostL[u] THEN "host" ELSE "participant"]_vars

\* a joiner who found another user recorded as host and its own row admitted
\* (a first-time joiner who is not host derives pending) has upserted the row
\* as an admitted participant
C30_Witness ==
  \E u \in Users :
     /\ apc[u] = "upserted"
     /\ hostId \notin {NoUser, u}
     /\ rows[hostId] = [status |-> "admitted", role |-> "host"]
     /\ rows[u] = [status |-> "admitted", role |-> "participant"]
     /\ planStatus[u] = "admitted"
     /\ ~isHostL[u]

(***************************************************************************)
(* Claims on leaving the call (SpecTeardown)                               *)
(***************************************************************************)
\* what leaveRoom is to leave behind for client c
TornDown(w, c) ==
  /\ ~w.localStream[c]
  /\ w.peerConnections[c] = NoPc
  /\ ~w.peerStreams[c]
  /\ ~w.channelRef[c]

\* C20: when a leaveRoom call of client c returns with the channel removed,
\* c has no local stream, no registered session, no peer stream and no
\* channel; a call made after such a return changes none of these and closes
\* nothing.
C20_LeaveIsIdempotent ==
  [][\A c \in Clients :
       /\ rtc'.leaveDone[c] > rtc.leaveDone[c] => TornDown(rtc', c)
       /\ rtc.leaveDone[c] > 0 /\ rtc'.leaveCalls[c] > rtc.leaveCalls[c]
            => /\ TornDown(rtc, c)
               /\ TornDown(rtc', c)
               /\ rtc'.conns = rtc.conns]_vars

(***************************************************************************)
(* Claims on the leave sequence (SpecLeave)                                *)
(***************************************************************************)
\* C11: once the leave sequence has been invoked, the client navigates to the
\* terminal page, also when every backend call hangs forever, and it never
\* navigates twice: the 3000 ms timer and the normal end of the cleanup
\* sequence never both navigate, in whatever order timers and calls complete.
C11_LeaveNavigatesOnce ==
  /\ [](Len(lv.navigations) <= 1)
  /\ [](lv.isExiting => <>(Len(lv.navigations) = 1))

\* every backend call still hangs, the forced timer has navigated and the
\* cleanup sequence has reached its end without navigating again
C11_Witness ==
  /\ lv.handler = "done"
  /\ lv.forced
  /\ lv.rtcLeave = "removeChannel"
  /\ lv.roomLeave = "delete"
  /\ Len(lv.navigations) = 1

(***************************************************************************)
(* Claims on being denied or removed (SpecKick)                            *)
(***************************************************************************)
\* C19: when the realtime feed delivers an update of the client's own row
\* with status denied or removed, isKicked becomes true in that step; isKicked
\* stays true from then on, and the client ends on the /leaving page.
C19_KickedOnOwnUpdate ==
  /\ [][lv.ownUpdate = "none" /\ lv'.ownUpdate # "none" => lv'.isKicked]_vars
  /\ [][lv.isKicked => lv'.isKicked]_vars
  /\ [](lv.ownUpdate # "none"
          => <>(lv.navigations # <<>> /\ lv.navigations[1] = "/leaving"))

(***************************************************************************)
(* Claims on the participants list (SpecParticipants)                      *)
(***************************************************************************)
NoDuplicateIds(l) == \A i, j \in 1..Len(l) : i # j => l[i].id # l[j].id

\* C34: ADD_PARTICIPANT is an upsert - when the list holds an entry with the
\* payload's id, that entry takes the payload's fields and the length stays,
\* otherwise the payload is appended - and no sequence of ADD_PARTICIPANT,
\* UPDATE_PARTICIPANT and REMOVE_PARTICIPANT on a list without duplicate
\* ids produces a list with duplicate ids.
C34_AddIsUpsert ==
  /\ NoDuplicateIds(pl.participants)
  /\ pl.action.type = "ADD_PARTICIPANT" =>
       LET b == pl.before
           a == pl.action.payload
           now == pl.participants
       IN IF \E i \in 1..Len(b) : b[i].id = a.id
          THEN /\ Len(now) = Len(b)
               /\ \A i \in 1..Len(b) :
                    IF b[i].id = a.id
                    THEN \A f \in DOMAIN a : now[i][f] = a[f]
                    ELSE now[i] = b[i]
          ELSE now = Append(b, a)

\* an ADD_PARTICIPANT for an id the two-entry list held, with other fields
C34_Witness ==
  /\ pl.action.type = "ADD_PARTICIPANT"
  /\ Len(pl.before) = 2
  /\ \E i \in 1..2 : /\ pl.before[i].id = pl.action.payload.id
                      /\ pl.before[i] # pl.action.payload
                      /\ pl.participants[i] = pl.action.payload


(***************************************************************************)
(* Claims on the board reducer, continued (SpecReducer)                    *)
(***************************************************************************)
\* C35: in every reachable state the elements are the snapshot the history
\* holds at historyIndex (state.history[k] is history[k + 1] here).
C35_ElementsAreCurrentSnapshot ==
  /\ st.historyIndex + 1 \in 1..Len(st.history)
  /\ st.elements = st.history[st.historyIndex + 1]

\* an UNDO has moved the index inside a history of three snapshots, onto a
\* snapshot that holds elements
C35_Witness ==
  /\ lastType = "UNDO"
  /\ Len(st.history) = 3
  /\ st.historyIndex = 1
  /\ st.elements # <<>>
  /\ st.history[3] # st.elements


(***************************************************************************)
(* Claims on the realtime handler of the board events (SpecStore)          *)
(***************************************************************************)
\* the realtime handler of client c is handed the next row of the log
HandedRow(c) ==
  /\ phase[c] # "out"
  /\ phase'[c] = phase[c]
  /\ cursor[c] < Len(log)
  /\ cursor'[c] = cursor[c] + 1

\* C36: a board action dispatched locally takes effect on the local elements
\* exactly once - the reducer runs on it when it is dispatched, and the
\* notification of the client's own row leaves the client's state as it is.
C36_OwnEventNotReapplied ==
  [][\A c \in Clients :
       /\ (HandedRow(c) /\ log[cursor[c] + 1].user_id = c) => room'[c] = room[c]
       /\ (Len(dispatched'[c]) > Len(dispatched[c])) =>
             LET row == dispatched'[c][Len(dispatched'[c])]
             IN room'[c] = roomReducer(room[c], [payload |-> row.data,
                                                 type |-> row.event_type])]_vars

\* a client was handed the notification of the ADD_ELEMENT it dispatched and
\* holds the element once, as the second snapshot of its history
C36_Witness ==
  \E c \in Clients :
     /\ phase[c] = "loaded"
     /\ Len(log) = 1 /\ cursor[c] = 1
     /\ log[1].user_id = c /\ log[1].event_type = "ADD_ELEMENT"
     /\ dispatched[c] = <<log[1]>>
     /\ room[c].elements = <<log[1].data.element>>
     /\ Len(room[c].history) = 2


\* C37: applying a remote ADD_ELEMENT event changes only elements, history
\* and historyIndex of the receiving client: its selectedElementId and its
\* activeTool stay as they are.
C37_RemoteAddKeepsSelection ==
  [][\A c \in Clients :
       (/\ HandedRow(c)
        /\ log[cursor[c] + 1].user_id # c
        /\ log[cursor[c] + 1].event_type = "ADD_ELEMENT")
       => /\ room'[c].selectedElementId = room[c].selectedElementId
          /\ room'[c].activeTool = room[c].activeTool]_vars


(***************************************************************************)
(* Claims on the participants realtime handler (SpecRoster)                *)
(***************************************************************************)
\* no notification is waiting and no profile lookup is pending
HandlerWorkDone == pl.notes = <<>> /\ pl.lookups = EmptyBag

\* C38: once all pending handler work has finished, a participant whose row
\* was deleted is absent from the local list, and a participant with a row
\* is shown with the status of the latest notification delivered for it
\* (the status of the row), whatever the order in which DELETE
\* notifications and profile lookups were processed.
C38_RosterFollowsNotifications ==
  HandlerWorkDone =>
    \A u \in PIds :
       IF pl.table[u] = "none"
       THEN \A i \in 1..Len(pl.participants) : pl.participants[i].id # u
       ELSE \E i \in 1..Len(pl.participants) :
               /\ pl.participants[i].id = u
               /\ pl.participants[i].status = pl.table[u]


(***************************************************************************)
(* Claims on a client with several peers, continued (SpecMesh)             *)
(***************************************************************************)
\* C39: ICE candidates buffered for a peer whose session is then closed are
\* never added to a later session created for the same peer id.
C39_NoStaleCandidates ==
  \A k \in 1..Len(mesh.pcs) : ~mesh.pcs[k].addedStale


(***************************************************************************)
(* Claims on the TurnCredentialManager (SpecTurn)                          *)
(***************************************************************************)
CachedValid == turn.credentials # NoCredentials /\ turn.expiryTime > turn.now + FiveMinutes

TurnCallMade == turn'.calls = turn.calls + 1

\* C40: the refresh is single-flight - at most one fetch is in flight, a
\* call made while a fetch is in flight starts none and receives that
\* fetch's result; credentials cached with an expiry more than five minutes
\* ahead are returned without a fetch; when a fetch has failed and its
\* caller has continued, refreshPromise is null and the next call that finds
\* no valid credentials starts a new fetch; getICEServers returns a list in
\* every case, the STUN-only one when the fetch failed.
C40_SingleFlightRefresh ==
  /\ [](/\ Cardinality(InFlight(turn)) <= 1
        /\ \A r \in turn.results :
              /\ r.inflight # {} =>
                    \E i \in r.inflight :
                       /\ r.promise = i
                       /\ turn.promises[i].state # "pending"
                       /\ r.outcome = TurnOutcome(r.call, turn.promises[i], i)
              /\ r.call = "getICEServers" =>
                    /\ r.outcome.returned \in {"stun+turn", "stun-only"}
                    /\ (r.promise # NoPromise /\ turn.promises[r.promise].state = "rejected")
                         => r.outcome.returned = "stun-only"
        /\ turn.refreshPromise # NoPromise =>
              \E task \in BagToSet(turn.tasks) :
                 task.kind = "starter" /\ task.promise = turn.refreshPromise)
  /\ [][TurnCallMade =>
          /\ InFlight(turn) # {} => turn'.promises = turn.promises
          /\ CachedValid =>
                /\ turn'.promises = turn.promises
                /\ turn'.tasks = turn.tasks
                /\ turn'.last.kind = "cached"
                /\ \E r \in turn'.results :
                      /\ r.kind = "cached" /\ r.call = turn'.last.call
                      /\ r.outcome.credentials = turn.credentials
          /\ (~CachedValid /\ turn.refreshPromise = NoPromise) =>
                /\ Len(turn'.promises) = Len(turn.promises) + 1
                /\ InFlight(turn') = {Len(turn'.promises)}]_vars

\* a getICEServers call joined a fetch in flight and got the STUN-only list
\* when it failed; a later call started a second fetch, and a call after
\* that was answered from the cache
C40_Witness ==
  /\ Len(turn.promises) = 2
  /\ turn.promises[1].state = "rejected"
  /\ turn.promises[2].state = "resolved"
  /\ \E r \in turn.results :
        /\ r.kind = "waiter" /\ r.call = "getICEServers" /\ r.inflight = {1}
        /\ r.outcome.returned = "stun-only"
  /\ \E r \in turn.results : r.kind = "cached" /\ r.outcome.credentials = 2

====
